---- MODULE Spec2Model ----
(***************************************************************************)
(* Model of clang_tidy_full_report.py: the path exclusion matcher          *)
(* (ClangTidyReporter._should_exclude_with_pattern / _should_exclude) and  *)
(* the diagnostic parser (ClangTidyReporter._parse_clang_tidy_output).     *)
(*                                                                         *)
(* A Python str is modelled as a sequence of one-character strings, so     *)
(* that slicing, splitting, joining and matching are computed and not      *)
(* assumed.                                                                *)
(***************************************************************************)
EXTENDS Integers, Sequences, FiniteSets, TLC

VARIABLES
    exclude_patterns,   \* self.exclude_patterns: list of patterns
    warnings,           \* self.warnings: list of records
    warnings_set,       \* self.warnings_set: set of 6-tuples
    file_warnings,      \* self.file_warnings: defaultdict(int), file |-> count
    file_path,          \* argument of the matcher call under study
    pattern,            \* argument of _should_exclude_with_pattern
    result,             \* value returned by the matcher call
    output,             \* argument of the latest _parse_clang_tidy_output call
    calls,              \* number of _parse_clang_tidy_output calls made so far
    lines_seen,         \* history: every line handed to the parser so far
    reparsed,           \* history: the latest parse call repeated the previous output
    input_log,          \* history: the lines handed to the parser, in order of arrival
    other_path,         \* argument of the second matcher call under study
    other_pattern,      \* argument of the second matcher call under study
    other_result,       \* value returned by the second matcher call
    debug_exclude,      \* self.debug_exclude
    print_mode,         \* self.print_mode
    stdout,             \* the messages printed, of those the model follows
    parallel,           \* args.parallel: main analyses with run-clang-tidy
    analyzer_works,     \* 'clang-tidy --version' runs and returns 0
    database_exists,    \* compile_commands.json exists in the build directory
    database,           \* the entries of compile_commands.json
    on_disk,            \* the source files that exist
    files_to_check,     \* self.files_to_check
    matcher_args,       \* history: the paths the loader handed to the matcher
    analyzed,           \* history: the files the analyzer was invoked on
    exit_status,        \* <<s>> once the process has exited with status s
    return_code,        \* <<r>> once run_analysis has returned r
    reports,            \* the report formats written
    summary,            \* the summary of the JSON report
    fix,                \* args.fix
    checks,             \* args.checks: <<>> when not given, else <<c>>
    no_config,          \* args.no_config
    config_found,       \* _find_clang_tidy_config finds a .clang-tidy file
    limit,              \* args.limit, 0 when not given
    compile_commands,   \* self.compile_commands
    checks_used,        \* self.checks_used: <<>> when None, else <<c>>
    invocations,        \* history: the analyzer command lines built
    excluded_files,     \* the list excluded_files of the loader
    excluded_by_pattern, \* the dict excluded_by_pattern of the loader
    metadata,           \* <<m>> once the JSON report is written with metadata m
    position,           \* index in files_to_check of the entry run_analysis is at
    files_processed,    \* the counter files_processed of run_analysis
    files_skipped,      \* the counter files_skipped of run_analysis
    trace,              \* history: what run_analysis did, entry by entry
    pc                  \* position of the caller

vars == <<exclude_patterns, warnings, warnings_set, file_warnings, file_path,
          pattern, result, output, calls, lines_seen, reparsed, input_log,
          other_path, other_pattern, other_result, debug_exclude, print_mode,
          stdout, parallel, analyzer_works, database_exists, database, on_disk,
          files_to_check, matcher_args, analyzed, exit_status, return_code, reports,
          summary, fix, checks, no_config, config_found, limit, compile_commands,
          checks_used, invocations, excluded_files, excluded_by_pattern, metadata, position,
          files_processed, files_skipped, trace, pc>>

-----------------------------------------------------------------------------
(* Bounds of the model *)

\* number of '/'-separated pieces a generated path is joined from
MaxComps == 3
\* number of patterns in a generated exclusion list
MaxPatterns == 2
\* number of parser calls in one run
MaxCalls == 2
\* number of words in a generated diagnostic message
MaxWords == 2
\* largest value given to --limit
MaxLimit == 2

-----------------------------------------------------------------------------
(* Python str operations on sequences of characters *)

SLASH == "/"
BACKSLASH == "\\"
STAR == "*"
QMARK == "?"
NL == "\n"

\* s[i:] for 0-based i (Python slice), s[:i]
SliceFrom(s, i) == SubSeq(s, i + 1, Len(s))
SliceTo(s, i) == SubSeq(s, 1, i)

\* s.startswith(p)
StartsWith(s, p) == Len(p) <= Len(s) /\ SubSeq(s, 1, Len(p)) = p

\* s.endswith(p)
EndsWith(s, p) == Len(p) <= Len(s) /\ SubSeq(s, Len(s) - Len(p) + 1, Len(s)) = p

\* sub in s
Contains(s, sub) == \E i \in 0..(Len(s) - Len(sub)) : SubSeq(s, i + 1, i + Len(sub)) = sub

\* s.replace(old, new): non-overlapping occurrences, left to right (old non-empty)
RECURSIVE Replace(_, _, _)
Replace(s, old, new) ==
    IF s = <<>> THEN <<>>
    ELSE IF StartsWith(s, old) THEN new \o Replace(SliceFrom(s, Len(old)), old, new)
    ELSE <<Head(s)>> \o Replace(Tail(s), old, new)

\* while '//' in s: s = s.replace('//', '/')
RECURSIVE CollapseSlashes(_)
CollapseSlashes(s) ==
    IF Contains(s, <<SLASH, SLASH>>)
    THEN CollapseSlashes(Replace(s, <<SLASH, SLASH>>, <<SLASH>>))
    ELSE s

\* s.lstrip('/'), s.rstrip('/')
RECURSIVE LStrip(_, _)
LStrip(s, c) == IF s # <<>> /\ Head(s) = c THEN LStrip(Tail(s), c) ELSE s

RECURSIVE RStrip(_, _)
RStrip(s, c) ==
    IF s # <<>> /\ s[Len(s)] = c THEN RStrip(SubSeq(s, 1, Len(s) - 1), c) ELSE s

\* s.split(sep) for a non-empty separator: always at least one piece
RECURSIVE SplitAcc(_, _, _)
SplitAcc(s, sep, cur) ==
    IF s = <<>> THEN <<cur>>
    ELSE IF StartsWith(s, sep) THEN <<cur>> \o SplitAcc(SliceFrom(s, Len(sep)), sep, <<>>)
    ELSE SplitAcc(Tail(s), sep, Append(cur, Head(s)))

Split(s, sep) == SplitAcc(s, sep, <<>>)

\* sep.join(parts)
RECURSIVE Join(_, _)
Join(parts, sep) ==
    IF parts = <<>> THEN <<>>
    ELSE IF Len(parts) = 1 THEN parts[1]
    ELSE parts[1] \o sep \o Join(Tail(parts), sep)

-----------------------------------------------------------------------------
(* Library functions the matcher calls *)

\* os.path.normpath (posixpath): drops empty and '.' components, resolves '..',
\* keeps exactly two leading slashes, maps the empty result to '.'
RECURSIVE NormComps(_, _, _)
NormComps(comps, new_comps, initial_slashes) ==
    IF comps = <<>> THEN new_comps
    ELSE LET comp == Head(comps) IN
         IF comp = <<>> \/ comp = <<".">>
         THEN NormComps(Tail(comps), new_comps, initial_slashes)
         ELSE IF comp # <<".", ".">>
                 \/ (initial_slashes = 0 /\ new_comps = <<>>)
                 \/ (new_comps # <<>> /\ new_comps[Len(new_comps)] = <<".", ".">>)
         THEN NormComps(Tail(comps), Append(new_comps, comp), initial_slashes)
         ELSE IF new_comps # <<>>
         THEN NormComps(Tail(comps), SubSeq(new_comps, 1, Len(new_comps) - 1), initial_slashes)
         ELSE NormComps(Tail(comps), new_comps, initial_slashes)

Normpath(path) ==
    IF path = <<>> THEN <<".">>
    ELSE LET initial_slashes ==
                 IF ~StartsWith(path, <<SLASH>>) THEN 0
                 ELSE IF StartsWith(path, <<SLASH, SLASH>>)
                         /\ ~StartsWith(path, <<SLASH, SLASH, SLASH>>) THEN 2
                 ELSE 1
             joined == Join(NormComps(Split(path, <<SLASH>>), <<>>, initial_slashes), <<SLASH>>)
             full == [i \in 1..initial_slashes |-> SLASH] \o joined
         IN IF full = <<>> THEN <<".">> ELSE full

\* os.path.basename (posixpath): what follows the last '/'
Basename(path) == LET parts == Split(path, <<SLASH>>) IN parts[Len(parts)]

\* fnmatch.fnmatch(name, pat) on POSIX: '*' matches any run of characters, the
\* '/' included, '?' any one character, every other character itself; the
\* whole name must match.  Bracket expressions do not occur in the patterns
\* of this model.
RECURSIVE Fnmatch(_, _)
Fnmatch(name, pat) ==
    IF pat = <<>> THEN name = <<>>
    ELSE IF Head(pat) = STAR
         THEN Fnmatch(name, Tail(pat)) \/ (name # <<>> /\ Fnmatch(Tail(name), pat))
    ELSE IF Head(pat) = QMARK
         THEN name # <<>> /\ Fnmatch(Tail(name), Tail(pat))
    ELSE name # <<>> /\ Head(name) = Head(pat) /\ Fnmatch(Tail(name), Tail(pat))

-----------------------------------------------------------------------------
(* ClangTidyReporter._should_exclude_with_pattern *)

\* lines 335-342: the path as the matcher sees it
NormalizePath(path) ==
    LET p1 == Replace(Normpath(path), <<BACKSLASH>>, <<SLASH>>)
        p2 == IF StartsWith(p1, <<".", SLASH>>) THEN SliceFrom(p1, 2) ELSE p1
    IN CollapseSlashes(p2)

\* lines 344-351: the pattern as the matcher sees it
NormalizePattern(pat) ==
    LET p1 == Replace(pat, <<BACKSLASH>>, <<SLASH>>)
        p2 == IF StartsWith(p1, <<".", SLASH>>) THEN SliceFrom(p1, 2) ELSE p1
    IN CollapseSlashes(p2)

\* a variant of the loop of lines 378-388 without the subpath test of lines 384-388
RECURSIVE PrefixStarLoopComponentOnly(_, _, _)
PrefixStarLoopComponentOnly(path_parts, search_pattern, i) ==
    IF i > Len(path_parts) THEN FALSE
    ELSE IF Fnmatch(path_parts[i], search_pattern) THEN TRUE
    ELSE PrefixStarLoopComponentOnly(path_parts, search_pattern, i + 1)

\* a variant of the loop of lines 378-388 that stops before the last component
RECURSIVE PrefixStarLoopSkipLast(_, _, _)
PrefixStarLoopSkipLast(path_parts, search_pattern, i) ==
    IF i > Len(path_parts) - 1 THEN FALSE
    ELSE IF Fnmatch(path_parts[i], search_pattern) THEN TRUE
    ELSE IF Fnmatch(Join(SubSeq(path_parts, i, Len(path_parts)), <<SLASH>>), search_pattern)
         THEN TRUE
    ELSE PrefixStarLoopSkipLast(path_parts, search_pattern, i + 1)

\* lines 378-388: for i in range(len(path_parts)), component then subpath
RECURSIVE PrefixStarLoop(_, _, _)
PrefixStarLoop(path_parts, search_pattern, i) ==
    IF i > Len(path_parts) THEN FALSE
    ELSE IF Fnmatch(path_parts[i], search_pattern) THEN TRUE
    ELSE IF Fnmatch(Join(SubSeq(path_parts, i, Len(path_parts)), <<SLASH>>), search_pattern)
         THEN TRUE
    ELSE PrefixStarLoop(path_parts, search_pattern, i + 1)

\* lines 395-400: Method 1, any component matches the directory pattern
RECURSIVE SuffixStarLoop(_, _, _)
SuffixStarLoop(path_parts, dir_pattern, i) ==
    IF i > Len(path_parts) THEN FALSE
    ELSE IF Fnmatch(path_parts[i], dir_pattern) THEN TRUE
    ELSE SuffixStarLoop(path_parts, dir_pattern, i + 1)

\* a variant of lines 389-413 that looks for the directory name anywhere in
\* the path text
SuffixStarMatchSubstring(normalized_path, pat) ==
    Contains(normalized_path, SliceTo(pat, Len(pat) - 3))

\* lines 389-413: pattern ends with '/**'
SuffixStarMatch(normalized_path, pat) ==
    LET dir_pattern == SliceTo(pat, Len(pat) - 3)
        path_parts == Split(normalized_path, <<SLASH>>)
    IN \/ SuffixStarLoop(path_parts, dir_pattern, 1)
       \/ Contains(<<SLASH>> \o normalized_path \o <<SLASH>>,
                   <<SLASH>> \o dir_pattern \o <<SLASH>>)
       \/ normalized_path = dir_pattern
       \/ StartsWith(normalized_path, dir_pattern \o <<SLASH>>)

\* lines 428-435: for i in range(len(normalized_path)), prefix path[:i]
RECURSIVE InfixLoop(_, _, _, _)
InfixLoop(normalized_path, start_pattern, end_pattern, i) ==
    IF i >= Len(normalized_path) THEN FALSE
    ELSE IF EndsWith(SliceTo(normalized_path, i), start_pattern)
            /\ (end_pattern = <<>>
                \/ Fnmatch(LStrip(SliceFrom(normalized_path, i), SLASH), end_pattern))
         THEN TRUE
    ELSE InfixLoop(normalized_path, start_pattern, end_pattern, i + 1)

\* lines 414-441: '**' elsewhere in the pattern
InfixMatch(normalized_path, pat) ==
    LET parts == Split(pat, <<STAR, STAR>>) IN
    IF Len(parts) # 2 THEN FALSE
    ELSE LET start_pattern == RStrip(parts[1], SLASH)
             end_pattern == LStrip(parts[2], SLASH)
         IN IF start_pattern # <<>>
            THEN InfixLoop(normalized_path, start_pattern, end_pattern, 0)
            ELSE Fnmatch(normalized_path, <<STAR>> \o end_pattern)

\* lines 462-467: for i in range(len(path_parts)), the leading i+1 components
RECURSIVE ParentDirLoop(_, _, _)
ParentDirLoop(path_parts, dir_pattern, i) ==
    IF i > Len(path_parts) THEN FALSE
    ELSE IF Fnmatch(Join(SubSeq(path_parts, 1, i), <<SLASH>>), dir_pattern) THEN TRUE
    ELSE ParentDirLoop(path_parts, dir_pattern, i + 1)

\* lines 442-467: no '**' in the pattern
PlainMatch(normalized_path, pat) ==
    \/ Fnmatch(normalized_path, pat)
    \/ /\ Contains(pat, <<STAR>>)
       /\ ~Contains(pat, <<SLASH>>)
       /\ Fnmatch(Basename(normalized_path), pat)
    \/ /\ EndsWith(pat, <<SLASH, STAR>>)
       /\ ParentDirLoop(Split(normalized_path, <<SLASH>>), SliceTo(pat, Len(pat) - 2), 1)

ShouldExcludeWithPattern(path, raw_pattern) ==
    LET normalized_path == NormalizePath(path)
        pat == NormalizePattern(raw_pattern)
    IN IF Contains(pat, <<STAR, STAR>>)
       THEN IF pat = <<STAR, STAR>> THEN TRUE
            ELSE IF StartsWith(pat, <<STAR, STAR, SLASH>>)
                 THEN PrefixStarLoop(Split(normalized_path, <<SLASH>>), SliceFrom(pat, 3), 1)
            ELSE IF EndsWith(pat, <<SLASH, STAR, STAR>>)
                 THEN SuffixStarMatch(normalized_path, pat)
            ELSE InfixMatch(normalized_path, pat)
       ELSE PlainMatch(normalized_path, pat)

\* a variant of lines 474-479 that returns the decision of the first pattern
ShouldExcludeLoopFirstOnly(path, patterns, i) ==
    IF i > Len(patterns) THEN FALSE
    ELSE ShouldExcludeWithPattern(path, patterns[i])

\* lines 474-479: _should_exclude, first match returns
RECURSIVE ShouldExcludeLoop(_, _, _)
ShouldExcludeLoop(path, patterns, i) ==
    IF i > Len(patterns) THEN FALSE
    ELSE IF ShouldExcludeWithPattern(path, patterns[i]) THEN TRUE
    ELSE ShouldExcludeLoop(path, patterns, i + 1)

ShouldExclude(path, patterns) == ShouldExcludeLoop(path, patterns, 1)

-----------------------------------------------------------------------------
(* ClangTidyReporter._parse_clang_tidy_output *)

SPACE == " "
COLON == ":"
LBRACKET == "["
RBRACKET == "]"

Digits == { "0", "1", "2", "3", "4", "5", "6", "7", "8", "9" }

DigitValue(c) ==
    CASE c = "0" -> 0 [] c = "1" -> 1 [] c = "2" -> 2 [] c = "3" -> 3 [] c = "4" -> 4
      [] c = "5" -> 5 [] c = "6" -> 6 [] c = "7" -> 7 [] c = "8" -> 8 [] c = "9" -> 9

\* a variant of int(s) that reads the last digit only
ToIntLastDigit(ds) == IF ds = <<>> THEN 0 ELSE DigitValue(ds[Len(ds)])

\* int(s) of a run of decimal digits
RECURSIVE ToInt(_)
ToInt(ds) ==
    IF ds = <<>> THEN 0
    ELSE 10 * ToInt(SubSeq(ds, 1, Len(ds) - 1)) + DigitValue(ds[Len(ds)])

WARNING == <<"w", "a", "r", "n", "i", "n", "g">>
ERROR == <<"e", "r", "r", "o", "r">>
NOTE == <<"n", "o", "t", "e">>

\* the alternation (warning|error|note) of the line pattern
Severities == { WARNING, ERROR, NOTE }

Largest(S) == CHOOSE x \in S : \A y \in S : y <= x

\* \d+ from position i (1-based): the position of its last digit, i - 1 when
\* there is no digit at i
RECURSIVE DigitRunEnd(_, _)
DigitRunEnd(line, i) ==
    IF i <= Len(line) /\ line[i] \in Digits THEN DigitRunEnd(line, i + 1) ELSE i - 1

\* the character of line at position i is c
At(line, i, c) == i >= 1 /\ i <= Len(line) /\ line[i] = c

NoMatch ==
    [matched |-> FALSE, file |-> <<>>, line |-> <<>>, column |-> <<>>,
     severity |-> <<>>, message |-> <<>>, check |-> <<>>]

\* a variant of the line pattern whose group 5 is '(.+?)': the message ends
\* before the first bracketed token that lets the rest match
GroupsAfterShortestMessage(line, e) ==
    LET l1 == DigitRunEnd(line, e + 2)
        c1 == DigitRunEnd(line, l1 + 2)
        sevs == { sv \in Severities :
                    StartsWith(SliceFrom(line, c1 + 2), sv \o <<COLON, SPACE>>) }
    IN IF ~( /\ e >= 1
             /\ At(line, e + 1, COLON)
             /\ l1 >= e + 2
             /\ At(line, l1 + 1, COLON)
             /\ c1 >= l1 + 2
             /\ At(line, c1 + 1, COLON)
             /\ At(line, c1 + 2, SPACE)
             /\ sevs # {} )
       THEN NoMatch
       ELSE LET sev == CHOOSE sv \in sevs : TRUE
                m == c1 + 2 + Len(sev) + 3
                checkEnds(j) == { k \in (j + 3)..Len(line) : At(line, k + 1, RBRACKET) }
                messageEnds == { j \in m..Len(line) :
                                   /\ At(line, j + 1, SPACE)
                                   /\ At(line, j + 2, LBRACKET)
                                   /\ checkEnds(j) # {} }
            IN IF messageEnds = {} THEN NoMatch
               ELSE LET j == CHOOSE x \in messageEnds : \A y \in messageEnds : x <= y
                        k == Largest(checkEnds(j))
                    IN [matched |-> TRUE,
                        file |-> SubSeq(line, 1, e),
                        line |-> SubSeq(line, e + 2, l1),
                        column |-> SubSeq(line, l1 + 2, c1),
                        severity |-> sev,
                        message |-> SubSeq(line, m, j),
                        check |-> SubSeq(line, j + 3, k)]

\* line 483, the rest of the pattern once group 1 is line[1..e]:
\* ':(\d+):(\d+): (warning|error|note): (.+) \[(.+)\]', the greedy groups 5
\* and 6 taking the longest text that lets the rest match
GroupsAfter(line, e) ==
    LET l1 == DigitRunEnd(line, e + 2)
        c1 == DigitRunEnd(line, l1 + 2)
        sevs == { sv \in Severities :
                    StartsWith(SliceFrom(line, c1 + 2), sv \o <<COLON, SPACE>>) }
    IN IF ~( /\ e >= 1
             /\ At(line, e + 1, COLON)
             /\ l1 >= e + 2
             /\ At(line, l1 + 1, COLON)
             /\ c1 >= l1 + 2
             /\ At(line, c1 + 1, COLON)
             /\ At(line, c1 + 2, SPACE)
             /\ sevs # {} )
       THEN NoMatch
       ELSE LET sev == CHOOSE sv \in sevs : TRUE
                m == c1 + 2 + Len(sev) + 3
                \* ends k of group 6 for group 5 ending at j
                checkEnds(j) == { k \in (j + 3)..Len(line) : At(line, k + 1, RBRACKET) }
                \* ends j of group 5
                messageEnds == { j \in m..Len(line) :
                                   /\ At(line, j + 1, SPACE)
                                   /\ At(line, j + 2, LBRACKET)
                                   /\ checkEnds(j) # {} }
            IN IF messageEnds = {} THEN NoMatch
               ELSE LET j == Largest(messageEnds)
                        k == Largest(checkEnds(j))
                    IN [matched |-> TRUE,
                        file |-> SubSeq(line, 1, e),
                        line |-> SubSeq(line, e + 2, l1),
                        column |-> SubSeq(line, l1 + 2, c1),
                        severity |-> sev,
                        message |-> SubSeq(line, m, j),
                        check |-> SubSeq(line, j + 3, k)]

\* lines 483, 505: re.match(pattern, line); group 1 '(.+)' is greedy, so it is
\* the longest prefix after which the rest of the pattern matches
ReMatch(line) ==
    LET es == { e \in 1..Len(line) : At(line, e + 1, COLON) /\ GroupsAfter(line, e).matched }
    IN IF es = {} THEN NoMatch ELSE GroupsAfter(line, Largest(es))

\* lines 525-532: warning_key
WarningKey(match) ==
    <<match.file, ToInt(match.line), ToInt(match.column), match.severity,
      match.message, match.check>>

\* the 6-tuple of a record of self.warnings
KeyOf(w) == <<w.file, w.line, w.column, w.severity, w.message, w.check>>

\* self.file_warnings[f] += 1 on a defaultdict(int)
Increment(fw, f) ==
    IF f \in DOMAIN fw THEN [fw EXCEPT ![f] = @ + 1]
    ELSE [g \in DOMAIN fw \cup {f} |-> IF g = f THEN 1 ELSE fw[g]]

\* lines 518-522: the exclusion test of the parser
ExcludedByPatterns(path, patterns) == patterns # <<>> /\ ShouldExclude(path, patterns)

\* a variant of lines 541-560 that appends the record without adding its
\* tuple to warnings_set
CollectedUnrecorded(st, match, patterns, now) ==
    [warnings |-> Append(st.warnings,
                         [file |-> match.file,
                          line |-> ToInt(match.line),
                          column |-> ToInt(match.column),
                          severity |-> match.severity,
                          message |-> match.message,
                          check |-> match.check,
                          timestamp |-> now]),
     warnings_set |-> st.warnings_set,
     file_warnings |-> IF ~ExcludedByPatterns(match.file, patterns)
                       THEN Increment(st.file_warnings, match.file)
                       ELSE st.file_warnings]

\* a variant of lines 541-560 that puts the new record in front of the list
CollectedInFront(st, match, patterns, now) ==
    [warnings |-> << [file |-> match.file,
                      line |-> ToInt(match.line),
                      column |-> ToInt(match.column),
                      severity |-> match.severity,
                      message |-> match.message,
                      check |-> match.check,
                      timestamp |-> now] >> \o st.warnings,
     warnings_set |-> st.warnings_set \cup { WarningKey(match) },
     file_warnings |-> IF ~ExcludedByPatterns(match.file, patterns)
                       THEN Increment(st.file_warnings, match.file)
                       ELSE st.file_warnings]

\* the record lines 544-553 append and the updates of lines 541 and 560
Collected(st, match, patterns, now) ==
    [warnings |-> Append(st.warnings,
                         [file |-> match.file,
                          line |-> ToInt(match.line),
                          column |-> ToInt(match.column),
                          severity |-> match.severity,
                          message |-> match.message,
                          check |-> match.check,
                          timestamp |-> now]),
     warnings_set |-> st.warnings_set \cup { WarningKey(match) },
     file_warnings |-> IF ~ExcludedByPatterns(match.file, patterns)
                       THEN Increment(st.file_warnings, match.file)
                       ELSE st.file_warnings]

\* a variant of lines 505-560 without the duplicate test of lines 535-539
ParseLineNoDedup(st, line, patterns, now) ==
    LET match == ReMatch(line) IN
    IF ~match.matched THEN st
    ELSE IF ExcludedByPatterns(match.file, patterns) THEN st
    ELSE Collected(st, match, patterns, now)

\* a variant of lines 505-560 without the exclusion test of lines 518-522
ParseLineNoExclusion(st, line, patterns, now) ==
    LET match == ReMatch(line) IN
    IF ~match.matched THEN st
    ELSE IF WarningKey(match) \in st.warnings_set THEN st
    ELSE Collected(st, match, patterns, now)

\* lines 505-560: the body of the loop for one line; st holds warnings,
\* warnings_set and file_warnings, now is the time of the call
ParseLine(st, line, patterns, now) ==
    LET match == ReMatch(line) IN
    IF ~match.matched THEN st
    ELSE IF ExcludedByPatterns(match.file, patterns) THEN st
    ELSE IF WarningKey(match) \in st.warnings_set THEN st
    ELSE Collected(st, match, patterns, now)

\* a variant of the loop that ends at the first line the pattern does not match
RECURSIVE ParseLinesUntilNoMatch(_, _, _, _)
ParseLinesUntilNoMatch(st, lines, patterns, now) ==
    IF lines = <<>> THEN st
    ELSE IF ~ReMatch(Head(lines)).matched THEN st
    ELSE ParseLinesUntilNoMatch(ParseLine(st, Head(lines), patterns, now), Tail(lines),
                                patterns, now)

\* line 498: for line in output.split('\n')
RECURSIVE ParseLines(_, _, _, _)
ParseLines(st, lines, patterns, now) ==
    IF lines = <<>> THEN st
    ELSE ParseLines(ParseLine(st, Head(lines), patterns, now), Tail(lines), patterns, now)

\* a variant of the parser that takes the first line of each output for a
\* heading
ParseClangTidyOutputAfterHeading(st, out, patterns, now) ==
    ParseLines(st, Tail(Split(out, <<NL>>)), patterns, now)

\* a variant of the parser whose set of seen tuples starts empty at each call
ParseClangTidyOutputPerCallSet(st, out, patterns, now) ==
    ParseLines([st EXCEPT !.warnings_set = {}], Split(out, <<NL>>), patterns, now)

\* lines 481-553: the whole call
ParseClangTidyOutput(st, out, patterns, now) ==
    ParseLines(st, Split(out, <<NL>>), patterns, now)

-----------------------------------------------------------------------------
(* Inputs of the matcher *)

\* the pieces the generated paths are joined from with '/': an empty piece
\* gives a leading, doubled or trailing slash, '..' a parent reference
Comps == { <<>>, <<".", ".">>, <<"a">>, <<"b">>, <<"a", "b">>, <<"b", "a">> }

RECURSIVE SeqsUpTo(_, _)
SeqsUpTo(S, n) ==
    IF n = 0 THEN { <<>> }
    ELSE LET shorter == SeqsUpTo(S, n - 1)
         IN shorter \cup { Append(q, x) : q \in { r \in shorter : Len(r) = n - 1 }, x \in S }

Paths == { Join(cs, <<SLASH>>) : cs \in SeqsUpTo(Comps, MaxComps) \ { <<>> } }

\* literal directory names
Names == { <<"a">>, <<"b">>, <<"a", "b">> }

\* d/**
SuffixStarPatterns == { d \o <<SLASH, STAR, STAR>> : d \in Names }

\* **/d/**
BothStarPatterns == { <<STAR, STAR, SLASH>> \o d \o <<SLASH, STAR, STAR>> : d \in Names }

\* the tails of the **/tail patterns
Tails == { <<"a">>, <<STAR, "a">>, <<"a", STAR>>, <<"a", SLASH, "b">>, <<"a", SLASH, STAR>>,
           <<QMARK>>, <<STAR, SLASH, "b">> }

PrefixStarPatterns == { <<STAR, STAR, SLASH>> \o t : t \in Tails } \cup BothStarPatterns

\* head/**/tail with exactly one '**'
InfixPatterns ==
    { <<"a", SLASH, STAR, STAR, SLASH, "b">>,
      <<"a", SLASH, STAR, STAR, SLASH, STAR, "b">>,
      <<"a", "b", SLASH, STAR, STAR, SLASH, "a">>,
      <<"b", SLASH, STAR, STAR, SLASH, "a", SLASH, "b">> }

\* some other patterns with '**'
OtherStarPatterns ==
    { <<STAR, STAR>>,
      <<SLASH, STAR, STAR, SLASH, "a">>,
      <<"a", STAR, STAR>>,
      <<"a", SLASH, STAR, STAR, SLASH, "b", SLASH, STAR, STAR, SLASH, "a">>,
      <<"a", SLASH, STAR, STAR, SLASH, STAR, STAR, SLASH, "b">> }

\* no '**', with a '/'
PlainSlashPatterns ==
    { <<"a", SLASH, STAR>>, <<"a", "b", SLASH, STAR>>, <<STAR, SLASH, STAR>>,
      <<"a", SLASH, STAR, "b">>, <<"a", SLASH, "b">>, <<"a", SLASH, QMARK>>,
      <<STAR, SLASH, "a">>, <<"a", STAR, SLASH, "b">> }

\* d/* with a literal directory d
DirStarPatterns == { <<"a", SLASH, STAR>>, <<"a", "b", SLASH, STAR>> }

\* no '**', no '/'
PlainNamePatterns == { <<STAR, "a">>, <<"a", STAR>>, <<"a">>, <<QMARK, "b">> }

Patterns ==
    SuffixStarPatterns \cup PrefixStarPatterns \cup InfixPatterns \cup OtherStarPatterns
        \cup PlainSlashPatterns \cup PlainNamePatterns

\* exclusion lists given to the reporter
ListPatterns ==
    { <<"a", SLASH, STAR, STAR>>, <<STAR, STAR, SLASH, "b">>, <<STAR, "a">> }

PatternLists == SeqsUpTo(ListPatterns, MaxPatterns)

-----------------------------------------------------------------------------
(* Inputs of the parser *)

\* file:line:column: severity: message [check]
Diagnostic(file, line, column, severity, message, check) ==
    file \o <<COLON>> \o line \o <<COLON>> \o column \o <<COLON, SPACE>> \o severity
         \o <<COLON, SPACE>> \o message \o <<SPACE, LBRACKET>> \o check \o <<RBRACKET>>

FileAB == <<"a", SLASH, "b">>
FileB == <<"b">>
FileExt == <<"a", "b", SLASH, "a">>

\* a warning in a/b
LineWarn == Diagnostic(FileAB, <<"1">>, <<"2">>, WARNING, <<"m">>, <<"c">>)
\* the same warning with the line number written 01
LineWarnPadded == Diagnostic(FileAB, <<"0", "1">>, <<"2">>, WARNING, <<"m">>, <<"c">>)
\* an error in ab/a, a file under the directory ab
LineExt == Diagnostic(FileExt, <<"1">>, <<"1">>, ERROR, <<"m">>, <<"c">>)
\* a note in b
LineNote == Diagnostic(FileB, <<"2">>, <<"1">>, NOTE, <<"m">>, <<"c">>)
\* a note in b whose message holds a bracketed part
LineTwoBrackets ==
    Diagnostic(FileB, <<"2">>, <<"1">>, NOTE, <<"m", SPACE, LBRACKET, "c", RBRACKET>>, <<"d">>)
\* an unknown severity
LineFatal == Diagnostic(FileB, <<"2">>, <<"1">>, <<"f", "a", "t", "a", "l">>, <<"m">>, <<"c">>)
\* a diagnostic without a bracketed check
LineNoCheck == <<"b", COLON, "2", COLON, "1", COLON, SPACE>> \o NOTE \o <<COLON, SPACE, "m">>
\* a continuation line
LineContinuation == <<SPACE, SPACE, "m", SPACE, LBRACKET, "c", RBRACKET>>
\* a warning in b at line 10, column 5, with a message of two words and a
\* check name with a dash
LineExample ==
    Diagnostic(FileB, <<"1", "0">>, <<"5">>, WARNING, <<"u", SPACE, "'", "x", "'">>,
               <<"c", "-", "d">>)

Lines ==
    { LineWarn, LineWarnPadded, LineExt, LineNote, LineTwoBrackets, LineFatal,
      LineNoCheck, LineContinuation, LineExample }

\* analyzer outputs: every line on its own, and some texts of several lines
LineLists ==
    { <<l>> : l \in Lines } \cup
    { <<>>,
      <<LineWarn, LineWarnPadded>>,
      <<LineExt, LineWarn>>,
      <<LineNote, LineContinuation, LineWarn>>,
      <<LineFatal, LineTwoBrackets, LineExt, LineNoCheck>> }

Outputs == { Join(ls, <<NL>>) : ls \in LineLists }

\* the exclusion lists of the reporters that parse
ReporterPatternLists ==
    { <<>>,
      << <<"a", "b", SLASH, STAR, STAR>> >>,
      << <<STAR, STAR, SLASH, "x">>, <<"b">> >> }

-----------------------------------------------------------------------------
(* State machine *)

NoCall == <<>>

\* the reporter's collections right after __init__ (lines 78-91)
Fresh ==
    /\ warnings = <<>>
    /\ warnings_set = {}
    /\ file_warnings = [f \in {} |-> 0]
    /\ output = <<>>
    /\ calls = 0
    /\ lines_seen = {}
    /\ reparsed = FALSE
    /\ input_log = <<>>

Untouched ==
    UNCHANGED <<warnings, warnings_set, file_warnings, output, calls, lines_seen, reparsed,
                input_log>>

\* one printed message: its fixed text and the value it shows
Message(text, about) == [text |-> text, about |-> about]

\* class PrintMode (lines 33-38)
QUIET == "quiet"
PROGRESS == "progress"
VERBOSE == "verbose"
FULL == "full"

PrintModes == { QUIET, PROGRESS, VERBOSE, FULL }

\* no second matcher call is under study
NoCompanion ==
    /\ other_path = NoCall
    /\ other_pattern = NoCall
    /\ other_result = FALSE

\* nothing printed, no report written, no summary computed
Silent ==
    /\ stdout = <<>>
    /\ reports = {}
    /\ summary = <<>>
    /\ metadata = <<>>

\* the defaults of the command line (lines 2287-2320): no --fix, no --checks,
\* no --no-config, no --limit; a .clang-tidy file is found
DefaultOptions ==
    /\ fix = FALSE
    /\ checks = <<>>
    /\ no_config = FALSE
    /\ config_found = TRUE
    /\ limit = 0

\* lines 92-96 and 209-211 before the database is read
NothingLoaded ==
    /\ compile_commands = <<>>
    /\ checks_used = <<>>
    /\ excluded_files = <<>>
    /\ excluded_by_pattern = [p \in {} |-> <<>>]

\* no analyzer command built, run_analysis not entered, no report written
NotStarted ==
    /\ invocations = <<>>
    /\ position = 0
    /\ files_processed = 0
    /\ files_skipped = 0
    /\ trace = <<>>

\* a reporter taken on its own: the defaults of __init__ (lines 76-83), an
\* empty database, no analysis started
Standalone ==
    /\ debug_exclude = FALSE
    /\ print_mode = PROGRESS
    /\ parallel = FALSE
    /\ analyzer_works = TRUE
    /\ database_exists = TRUE
    /\ database = <<>>
    /\ on_disk = {}
    /\ files_to_check = <<>>
    /\ matcher_args = <<>>
    /\ analyzed = <<>>
    /\ exit_status = <<>>
    /\ return_code = <<>>
    /\ DefaultOptions
    /\ NothingLoaded
    /\ NotStarted

companionVars == <<other_path, other_pattern, other_result>>

outputVars == <<stdout, reports, summary, metadata>>

optionVars == <<fix, checks, no_config, config_found, limit>>

loadVars == <<compile_commands, excluded_files, excluded_by_pattern>>

loopVars == <<position, files_processed, files_skipped, trace>>

runVars == <<debug_exclude, print_mode, parallel, analyzer_works, database_exists, database,
             on_disk, files_to_check, matcher_args, analyzed, exit_status, return_code,
             optionVars, loadVars, loopVars, checks_used, invocations>>

\* one call _should_exclude_with_pattern(file_path, pattern)
InitMatch ==
    /\ Fresh
    /\ NoCompanion
    /\ Silent
    /\ Standalone
    /\ exclude_patterns = <<>>
    /\ file_path \in Paths
    /\ pattern \in Patterns
    /\ result = FALSE
    /\ pc = "start"

CallShouldExcludeWithPattern ==
    /\ pc = "start"
    /\ result' = ShouldExcludeWithPattern(file_path, pattern)
    /\ pc' = "done"
    /\ UNCHANGED <<exclude_patterns, file_path, pattern>>
    /\ UNCHANGED <<companionVars, outputVars, runVars>>
    /\ Untouched

NextMatch == CallShouldExcludeWithPattern

SpecMatch == InitMatch /\ [][NextMatch]_vars

\* one call _should_exclude(file_path) on a reporter with a list of patterns
InitExclude ==
    /\ Fresh
    /\ NoCompanion
    /\ Silent
    /\ Standalone
    /\ exclude_patterns \in PatternLists
    /\ file_path \in Paths
    /\ pattern = NoCall
    /\ result = FALSE
    /\ pc = "start"

CallShouldExclude ==
    /\ pc = "start"
    /\ result' = ShouldExclude(file_path, exclude_patterns)
    /\ pc' = "done"
    /\ UNCHANGED <<exclude_patterns, file_path, pattern>>
    /\ UNCHANGED <<companionVars, outputVars, runVars>>
    /\ Untouched

NextExclude == CallShouldExclude

SpecExclude == InitExclude /\ [][NextExclude]_vars

\* a reporter that parses analyzer outputs, one call after the other
Init ==
    /\ Fresh
    /\ NoCompanion
    /\ Silent
    /\ Standalone
    /\ exclude_patterns \in ReporterPatternLists
    /\ file_path = NoCall
    /\ pattern = NoCall
    /\ result = FALSE
    /\ pc = "idle"

\* one call self._parse_clang_tidy_output(out)
CallParseClangTidyOutput(out) ==
    /\ pc = "idle"
    /\ calls < MaxCalls
    /\ LET st == ParseClangTidyOutput(
                     [warnings |-> warnings, warnings_set |-> warnings_set,
                      file_warnings |-> file_warnings],
                     out, exclude_patterns, calls + 1)
       IN /\ warnings' = st.warnings
          /\ warnings_set' = st.warnings_set
          /\ file_warnings' = st.file_warnings
    /\ output' = out
    /\ calls' = calls + 1
    /\ lines_seen' = lines_seen \cup { Split(out, <<NL>>)[i] : i \in 1..Len(Split(out, <<NL>>)) }
    /\ reparsed' = (calls >= 1 /\ out = output)
    /\ input_log' = input_log \o Split(out, <<NL>>)
    /\ UNCHANGED <<exclude_patterns, file_path, pattern, result, pc>>
    /\ UNCHANGED <<companionVars, outputVars, runVars>>

\* groups[k].append(w) on a defaultdict(list)
AppendTo(groups, k, w) ==
    IF k \in DOMAIN groups THEN [groups EXCEPT ![k] = Append(@, w)]
    ELSE [g \in DOMAIN groups \cup {k} |-> IF g = k THEN <<w>> ELSE groups[g]]

\* lines 1831-1833: the loop of _group_by
RECURSIVE GroupLoop(_, _, _)
GroupLoop(groups, ws, key) ==
    IF ws = <<>> THEN groups
    ELSE GroupLoop(AppendTo(groups, Head(ws)[key], Head(ws)), Tail(ws), key)

\* a variant of _group_by that counts each group once
GroupByOnePerKey(ws, key) ==
    LET groups == GroupLoop([k \in {} |-> <<>>], ws, key)
    IN [k \in DOMAIN groups |-> 1]

\* lines 1829-1834: _group_by(key) on the list ws
GroupBy(ws, key) ==
    LET groups == GroupLoop([k \in {} |-> <<>>], ws, key)
    IN [k \in DOMAIN groups |-> Len(groups[k])]

\* lines 1509-1545: generate_json_report; the caller writes its reports once
\* the analysis is over (lines 2737-2746)
GenerateJsonReport ==
    /\ pc \in { "idle", "analysed" }
    /\ summary' = [by_severity |-> GroupBy(warnings, "severity"),
                   by_check |-> GroupBy(warnings, "check"),
                   by_file |-> GroupBy(warnings, "file")]
    /\ metadata' = << [total_files |-> Len(compile_commands),
                       files_excluded |-> Len(compile_commands) - Len(files_to_check),
                       files_analyzed |-> Len(files_to_check),
                       total_warnings |-> Len(warnings),
                       checks_used |-> checks_used] >>
    /\ reports' = reports \cup { "json" }
    /\ stdout' = Append(stdout, Message("JSON report saved", <<>>))
    /\ pc' = "reported"
    /\ UNCHANGED <<exclude_patterns, file_path, pattern, result>>
    /\ UNCHANGED <<companionVars, runVars>>
    /\ Untouched

Next ==
    \/ \E out \in Outputs : CallParseClangTidyOutput(out)
    \/ GenerateJsonReport

Spec == Init /\ [][Next]_vars


-----------------------------------------------------------------------------
(* Claims about the diagnostic parser *)

\* the 6-tuples of a list of records, in the order of the list
Keys(ws) == [i \in 1..Len(ws) |-> KeyOf(ws[i])]

\* C1: after any sequence of parser calls, warnings holds no two records with
\* the same (file, line, column, severity, message, check), and the set of
\* tuples collected is decided by the set of lines that arrived, whatever
\* their order: it is the set of tuples of the matching lines whose file is
\* not excluded.
C1_NoDuplicateTuples ==
    /\ \A i, j \in 1..Len(warnings) :
           i # j => KeyOf(warnings[i]) # KeyOf(warnings[j])
    /\ { KeyOf(warnings[i]) : i \in 1..Len(warnings) } =
       { WarningKey(ReMatch(l)) :
           l \in { x \in lines_seen :
                     /\ ReMatch(x).matched
                     /\ ~ExcludedByPatterns(ReMatch(x).file, exclude_patterns) } }

\* C1 witness: the second call brought a line whose tuple the first call had
\* collected, written with another spelling of the line number
C1_Witness ==
    /\ calls = 2
    /\ output = LineWarnPadded
    /\ LineWarn \in lines_seen
    /\ Len(warnings) = 1
    /\ warnings[1].timestamp = 1
    /\ KeyOf(warnings[1]) = WarningKey(ReMatch(LineWarnPadded))

\* C2: parsing is idempotent: a call of the parser on the output text of the
\* call before it leaves the same tuples in the same order.
C2_ParseIdempotent ==
    [][(calls >= 1 /\ calls' = calls + 1 /\ output' = output)
          => Keys(warnings') = Keys(warnings)]_vars

\* C2 witness: an output of two diagnostics was parsed twice in a row
C2_Witness ==
    /\ reparsed
    /\ output = Join(<<LineNote, LineContinuation, LineWarn>>, <<NL>>)
    /\ Len(warnings) = 2

\* C3: no diagnostic whose file _should_exclude excludes is in warnings or in
\* warnings_set after parsing, and such a file has no tally in file_warnings.
C3_ExcludedNeverCollected ==
    /\ \A i \in 1..Len(warnings) :
           ~ExcludedByPatterns(warnings[i].file, exclude_patterns)
    /\ \A key \in warnings_set : ~ExcludedByPatterns(key[1], exclude_patterns)
    /\ \A f \in DOMAIN file_warnings :
           ExcludedByPatterns(f, exclude_patterns) => file_warnings[f] = 0

\* C3 witness: the output held a diagnostic on ab/a and one on a/b, ab/** is
\* excluded, and only the diagnostic on a/b was collected
C3_Witness ==
    /\ calls = 1
    /\ output = Join(<<LineExt, LineWarn>>, <<NL>>)
    /\ exclude_patterns = << <<"a", "b", SLASH, STAR, STAR>> >>
    /\ Len(warnings) = 1
    /\ warnings[1].file = FileAB

-----------------------------------------------------------------------------
(* Claims about the exclusion matcher *)

\* the '/'-separated components of the path as the matcher sees it
PathParts == Split(NormalizePath(file_path), <<SLASH>>)

\* the components i..j of PathParts joined with '/'
SubPath(i, j) == Join(SubSeq(PathParts, i, j), <<SLASH>>)

\* the orderings of a list
Orderings(list) ==
    { [i \in 1..Len(list) |-> list[f[i]]] : f \in Permutations(1..Len(list)) }

\* sub occurs in s and is not the whole of s
ProperPartOf(sub, s) == s # sub /\ Contains(s, sub)

\* C4: _should_exclude(path) is true if and only if at least one pattern of
\* the exclusion list matches the path on its own; the result is the same
\* for every ordering of the list and is false for the empty list.
C4_ExcludedIffSomePatternMatches ==
    pc = "done" =>
        /\ result <=> \E i \in 1..Len(exclude_patterns) :
                          ShouldExcludeWithPattern(file_path, exclude_patterns[i])
        /\ \A q \in Orderings(exclude_patterns) : ShouldExclude(file_path, q) = result
        /\ exclude_patterns = <<>> => ~result

\* C4 witness: a two-pattern list whose first pattern does not match and
\* whose second does
C4_Witness ==
    /\ pc = "done"
    /\ Len(exclude_patterns) = 2
    /\ ~ShouldExcludeWithPattern(file_path, exclude_patterns[1])
    /\ ShouldExcludeWithPattern(file_path, exclude_patterns[2])
    /\ result

\* C5: for a pattern d/** with a literal directory name d, every path with d
\* as a complete component is excluded, and a path in which d occurs only as
\* a proper part of longer components is not excluded.
C5_DirSuffixWholeComponent ==
    (pc = "done" /\ pattern \in SuffixStarPatterns) =>
        LET d == SliceTo(pattern, Len(pattern) - 3) IN
        /\ (\E i \in 1..Len(PathParts) : PathParts[i] = d) => result
        /\ ( /\ \A i \in 1..Len(PathParts) : PathParts[i] # d
             /\ \E i \in 1..Len(PathParts) : ProperPartOf(d, PathParts[i]) ) => ~result

\* C5 witness: a/** excludes /b/a, where a is a component under an absolute prefix
C5_Witness ==
    /\ pc = "done"
    /\ pattern = <<"a", SLASH, STAR, STAR>>
    /\ file_path = <<SLASH, "b", SLASH, "a">>
    /\ result

\* C6: for a pattern **/d/** with a literal name d, a path that has d as a
\* component followed by at least one further component is excluded, and a
\* path with no component equal to d is not excluded.
C6_DirAnywhere ==
    (pc = "done" /\ pattern \in BothStarPatterns) =>
        LET d == SubSeq(pattern, 4, Len(pattern) - 3) IN
        /\ (\E i \in 1..(Len(PathParts) - 1) : PathParts[i] = d) => result
        /\ (\A i \in 1..Len(PathParts) : PathParts[i] # d) => ~result

\* C6 witness: **/a/** excludes b/a/b
C6_Witness ==
    /\ pc = "done"
    /\ pattern = <<STAR, STAR, SLASH, "a", SLASH, STAR, STAR>>
    /\ file_path = <<"b", SLASH, "a", SLASH, "b">>
    /\ result

\* C7: for an infix pattern head/**/tail, a path is excluded when some prefix
\* of the path ends with head and the rest of the path after that prefix
\* glob-matches *tail, so that a/**/b excludes a/b and also a/x/b and
\* a/x/y/b.  The prefixes taken here are the ones that end with a whole
\* component, which is the least the claim asks for.
C7_InfixAnyDepth ==
    (pc = "done" /\ pattern \in InfixPatterns) =>
        LET parts == Split(pattern, <<STAR, STAR>>)
            head == RStrip(parts[1], SLASH)
            tail == LStrip(parts[2], SLASH)
        IN (\E i \in 1..(Len(PathParts) - 1) :
                /\ EndsWith(SubPath(1, i), head)
                /\ Fnmatch(<<SLASH>> \o SubPath(i + 1, Len(PathParts)), <<STAR>> \o tail))
           => result

\* C8: for a pattern without '**' that contains a '/', '*' and '?' match
\* only within one path segment: an excluded path has as many segments as
\* the pattern and each segment matches its pattern segment.
C8_StarWithinSegment ==
    (pc = "done" /\ pattern \in PlainSlashPatterns /\ ~EndsWith(pattern, <<SLASH, STAR>>)) =>
        LET segs == Split(pattern, <<SLASH>>) IN
        result => /\ Len(PathParts) = Len(segs)
                  /\ \A i \in 1..Len(segs) : Fnmatch(PathParts[i], segs[i])

\* C9: a pattern d/* with a literal directory d excludes the files that lie
\* directly in d, and does not exclude the files nested more than one level
\* below d.
C9_OneLevelMembership ==
    (pc = "done" /\ pattern \in DirStarPatterns) =>
        LET d == SliceTo(pattern, Len(pattern) - 2)
            n == Len(Split(d, <<SLASH>>))
        IN /\ (Len(PathParts) = n + 1 /\ SubPath(1, n) = d) => result
           /\ (Len(PathParts) > n + 1 /\ SubPath(1, n) = d) => ~result

\* C10: for a pattern **/tail, a path is excluded exactly when the glob tail
\* matches one single component, or matches the suffix of the path joined
\* from the components from some index to the end.
C10_PrefixStarComponentOrSuffix ==
    (pc = "done" /\ pattern \in PrefixStarPatterns) =>
        LET tail == SliceFrom(pattern, 3) IN
        result <=> \E i \in 1..Len(PathParts) :
                       \/ Fnmatch(PathParts[i], tail)
                       \/ Fnmatch(SubPath(i, Len(PathParts)), tail)

\* C10 witness: **/a/b excludes b/a/b by the suffix a/b, no single component
\* matching
C10_Witness ==
    /\ pc = "done"
    /\ pattern = <<STAR, STAR, SLASH, "a", SLASH, "b">>
    /\ file_path = <<"b", SLASH, "a", SLASH, "b">>
    /\ result

-----------------------------------------------------------------------------
(* Spellings of one path and of one pattern *)

\* every '/' written as a backslash
WithBackslashes(s) == Replace(s, <<SLASH>>, <<BACKSLASH>>)

\* every '/' written twice
WithDoubledSlashes(s) == Replace(s, <<SLASH>>, <<SLASH, SLASH>>)

\* a leading './'
WithDotSlash(s) == <<".", SLASH>> \o s

\* the spellings of s that differ from it only in backslashes for slashes, in
\* duplicated slashes and in a leading './'
Spellings(s) ==
    LET dotted == { s } \cup (IF StartsWith(s, <<SLASH>>) THEN {} ELSE { WithDotSlash(s) })
        doubled == dotted \cup { WithDoubledSlashes(t) : t \in dotted }
    IN doubled \cup { WithBackslashes(t) : t \in doubled }

SpelledPaths ==
    { <<"a", SLASH, "b">>, <<"b">>, <<"a", SLASH, "b", SLASH, "a">>, <<SLASH, "a", SLASH, "b">> }

SpelledPatterns ==
    { <<"a", SLASH, STAR, STAR>>, <<STAR, STAR, SLASH, "b">>, <<"a", SLASH, "b">>,
      <<"a", SLASH, STAR>>, <<"b">> }

\* two matcher calls: the same pattern on two spellings of one path, or two
\* spellings of one pattern on the same path
InitNormalize ==
    /\ Fresh
    /\ Silent
    /\ Standalone
    /\ exclude_patterns = <<>>
    /\ \/ \E p \in SpelledPaths :
            /\ file_path \in Spellings(p)
            /\ other_path \in Spellings(p)
            /\ pattern \in SpelledPatterns
            /\ other_pattern = pattern
       \/ \E q \in SpelledPatterns :
            /\ pattern \in Spellings(q)
            /\ other_pattern \in Spellings(q)
            /\ file_path \in SpelledPaths
            /\ other_path = file_path
    /\ result = FALSE
    /\ other_result = FALSE
    /\ pc = "start"

\* the second call, _should_exclude_with_pattern(other_path, other_pattern)
CallShouldExcludeWithOtherSpelling ==
    /\ pc = "done"
    /\ other_result' = ShouldExcludeWithPattern(other_path, other_pattern)
    /\ pc' = "both"
    /\ UNCHANGED <<exclude_patterns, file_path, pattern, result, other_path, other_pattern>>
    /\ UNCHANGED <<outputVars, runVars>>
    /\ Untouched

NextNormalize ==
    \/ CallShouldExcludeWithPattern
    \/ CallShouldExcludeWithOtherSpelling

SpecNormalize == InitNormalize /\ [][NextNormalize]_vars

\* C11: two paths, or two patterns, that differ only in backslashes versus
\* forward slashes, in duplicated slashes or in a leading './' give the same
\* exclusion decision.
C11_SpellingsDecideAlike ==
    pc = "both" => result = other_result

-----------------------------------------------------------------------------
(* Debug tracing of the matcher *)

\* lines 353-363: show_debug
ShowDebug(path, raw_pattern, debug) ==
    LET normalized_path == NormalizePath(path)
        pat == NormalizePattern(raw_pattern)
    IN IF ~debug THEN FALSE
       ELSE IF Contains(pat, <<STAR, STAR>>) /\ EndsWith(pat, <<SLASH, STAR, STAR>>)
            THEN Contains(normalized_path, SliceTo(pat, Len(pat) - 3))
       ELSE ~Contains(pat, <<STAR, STAR>>)
                \/ Len(SelectSeq(normalized_path, LAMBDA c : c = SLASH)) <= 3

\* lines 365-470: the messages printed by a call that returns value; the
\* pattern '**' returns before any verdict is printed (line 372)
DebugOutput(path, raw_pattern, debug, value) ==
    LET pat == NormalizePattern(raw_pattern) IN
    IF ~ShowDebug(path, raw_pattern, debug) THEN <<>>
    ELSE << Message("DEBUG: Checking", NormalizePath(path)) >> \o
         (IF pat = <<STAR, STAR>> THEN <<>>
          ELSE IF value THEN << Message("MATCHED", pat) >>
          ELSE << Message("No match", pat) >>)

\* a call that returns value: the value and the messages printed
Traced(path, raw_pattern, debug, value) ==
    [value |-> value, printed |-> DebugOutput(path, raw_pattern, debug, value)]

\* a variant of the matcher that answers False whenever it traces the call
ShouldExcludeWithPatternTracedSilencing(path, raw_pattern, debug) ==
    Traced(path, raw_pattern, debug,
           ShouldExcludeWithPattern(path, raw_pattern) /\ ~ShowDebug(path, raw_pattern, debug))

\* lines 333-472 on a reporter whose debug_exclude is debug: the value
\* returned and the messages printed
ShouldExcludeWithPatternTraced(path, raw_pattern, debug) ==
    Traced(path, raw_pattern, debug, ShouldExcludeWithPattern(path, raw_pattern))

TracedPaths ==
    { <<"b">>, <<"a", SLASH, "b">>, <<"a", "b", SLASH, "a">>,
      <<"a", SLASH, "b", SLASH, "a", SLASH, "b", SLASH, "a">> }

TracedPatterns ==
    { <<"a", SLASH, STAR, STAR>>, <<"b", "a", SLASH, STAR, STAR>>, <<STAR, STAR, SLASH, "b">>,
      <<"a", SLASH, STAR, STAR, SLASH, "b">>, <<STAR, STAR>>, <<"b">>, <<"a", SLASH, STAR>> }

\* the same matcher call made twice, with debug_exclude changed in between
InitTraced ==
    /\ Fresh
    /\ NoCompanion
    /\ Silent
    /\ exclude_patterns \in ReporterPatternLists
    /\ file_path \in TracedPaths
    /\ pattern \in TracedPatterns
    /\ result = FALSE
    /\ debug_exclude \in BOOLEAN
    /\ print_mode = PROGRESS
    /\ parallel = FALSE
    /\ analyzer_works = TRUE
    /\ database_exists = TRUE
    /\ database = <<>>
    /\ on_disk = {}
    /\ files_to_check \in { <<>>, << <<"b">> >> }
    /\ matcher_args = <<>>
    /\ analyzed = <<>>
    /\ exit_status = <<>>
    /\ return_code = <<>>
    /\ DefaultOptions
    /\ NothingLoaded
    /\ NotStarted
    /\ pc = "start"

tracedFrame ==
    <<exclude_patterns, file_path, pattern, other_path, other_pattern, print_mode,
      parallel, analyzer_works, database_exists, database, on_disk, files_to_check, matcher_args, analyzed,
      exit_status, return_code, reports, summary, optionVars, loadVars, loopVars, checks_used,
      invocations, metadata>>

\* self._should_exclude_with_pattern(file_path, pattern)
Returned(call) ==
    /\ result' = call.value
    /\ stdout' = stdout \o call.printed

ReturnedAgain(call) ==
    /\ other_result' = call.value
    /\ stdout' = stdout \o call.printed

CallTraced ==
    /\ pc = "start"
    /\ Returned(ShouldExcludeWithPatternTraced(file_path, pattern, debug_exclude))
    /\ pc' = "done"
    /\ UNCHANGED <<other_result, debug_exclude>>
    /\ UNCHANGED tracedFrame
    /\ Untouched

\* lines 231 and 263: the loader assigns self.debug_exclude between calls
SetDebugExclude ==
    /\ pc = "done"
    /\ debug_exclude' = ~debug_exclude
    /\ pc' = "toggled"
    /\ UNCHANGED <<result, other_result, stdout>>
    /\ UNCHANGED tracedFrame
    /\ Untouched

\* the same call again
CallTracedAgain ==
    /\ pc = "toggled"
    /\ ReturnedAgain(ShouldExcludeWithPatternTraced(file_path, pattern, debug_exclude))
    /\ pc' = "both"
    /\ UNCHANGED <<result, debug_exclude>>
    /\ UNCHANGED tracedFrame
    /\ Untouched

NextTraced ==
    \/ CallTraced
    \/ SetDebugExclude
    \/ CallTracedAgain

SpecTraced == InitTraced /\ [][NextTraced]_vars

-----------------------------------------------------------------------------
(* Claims about the lines of the analyzer output *)

\* the well-formed lines of the inputs, each with its six parts
WellFormedLines ==
    { [text |-> LineWarn, parts |-> <<FileAB, 1, 2, WARNING, <<"m">>, <<"c">> >>],
      [text |-> LineWarnPadded, parts |-> <<FileAB, 1, 2, WARNING, <<"m">>, <<"c">> >>],
      [text |-> LineExt, parts |-> <<FileExt, 1, 1, ERROR, <<"m">>, <<"c">> >>],
      [text |-> LineNote, parts |-> <<FileB, 2, 1, NOTE, <<"m">>, <<"c">> >>],
      [text |-> LineTwoBrackets,
       parts |-> <<FileB, 2, 1, NOTE, <<"m", SPACE, LBRACKET, "c", RBRACKET>>, <<"d">> >>],
      [text |-> LineExample,
       parts |-> <<FileB, 10, 5, WARNING, <<"u", SPACE, "'", "x", "'">>, <<"c", "-", "d">> >>] }

\* C13: parsing a line file:line:column: severity: message [check] with
\* severity warning, error or note, whose file is not excluded and whose tuple
\* has not been collected, appends exactly one record, and its file, line (an
\* integer), column (an integer), severity, message and check are the six
\* parts of the line.
C13_WellFormedLineGivesItsParts ==
    [][ \A w \in WellFormedLines :
          ( /\ calls' = calls + 1
            /\ output' = w.text
            /\ ~ShouldExclude(w.parts[1], exclude_patterns)
            /\ \A i \in 1..Len(warnings) : KeyOf(warnings[i]) # w.parts )
          => /\ Len(warnings') = Len(warnings) + 1
             /\ SubSeq(warnings', 1, Len(warnings)) = warnings
             /\ KeyOf(warnings'[Len(warnings')]) = w.parts ]_vars

\* the line at line 10, column 5 has been parsed into a record after another
\* record was collected
C13_Witness ==
    /\ calls = 2
    /\ output = LineExample
    /\ Len(warnings) = 2
    /\ KeyOf(warnings[2]) = <<FileB, 10, 5, WARNING, <<"u", SPACE, "'", "x", "'">>, <<"c", "-", "d">> >>

\* the lines of the inputs that are not of the diagnostic grammar: an unknown
\* severity, a diagnostic without a bracketed check, a continuation line, an
\* empty line
NonDiagnosticLines == { LineFatal, LineNoCheck, LineContinuation, <<>> }

IsDiagnosticLine(l) == l \notin NonDiagnosticLines

\* C14: a line that does not match the diagnostic grammar is skipped: an
\* output made of such lines leaves warnings, warnings_set and file_warnings
\* unchanged, and an output that holds such lines is parsed as the same output
\* without them, so the lines that follow are still parsed.
C14_OtherLinesAreSkipped ==
    [][ calls' = calls + 1 =>
          LET kept == SelectSeq(Split(output', <<NL>>), IsDiagnosticLine)
              st == ParseLines([warnings |-> warnings, warnings_set |-> warnings_set,
                                file_warnings |-> file_warnings],
                               kept, exclude_patterns, calls + 1)
          IN /\ kept = <<>> => UNCHANGED <<warnings, warnings_set, file_warnings>>
             /\ warnings' = st.warnings
             /\ warnings_set' = st.warnings_set
             /\ file_warnings' = st.file_warnings ]_vars

\* a warning that follows a continuation line has been collected, then an
\* output of one unknown-severity line has been parsed
C14_Witness ==
    /\ calls = 2
    /\ output = LineFatal
    /\ Keys(warnings) = << <<FileB, 2, 1, NOTE, <<"m">>, <<"c">> >>,
                           <<FileAB, 1, 2, WARNING, <<"m">>, <<"c">> >> >>
    /\ LineContinuation \in lines_seen

\* the tuples of the lines of log that are diagnostics of a file that is not
\* excluded, in the order of the lines
RECURSIVE RetainedTuples(_, _)
RetainedTuples(log, patterns) ==
    IF log = <<>> THEN <<>>
    ELSE LET match == ReMatch(Head(log))
             rest == RetainedTuples(Tail(log), patterns)
         IN IF match.matched /\ ~ShouldExclude(match.file, patterns)
            THEN <<WarningKey(match)>> \o rest
            ELSE rest

\* the elements of a sequence at their first occurrence, in order
FirstOccurrences(q) ==
    LET firsts == SelectSeq([i \in 1..Len(q) |-> <<i, q[i]>>],
                            LAMBDA e : \A j \in 1..(e[1] - 1) : q[j] # e[2])
    IN [i \in 1..Len(firsts) |-> firsts[i][2]]

\* C15: after any sequence of parse calls the records of warnings are in the
\* order of the first occurrence of their tuples in the concatenated input,
\* and a parse call keeps the records already collected where they are.
C15_FirstSeenOrder ==
    [][ /\ Len(warnings') >= Len(warnings)
        /\ SubSeq(warnings', 1, Len(warnings)) = warnings
        /\ Keys(warnings') = FirstOccurrences(RetainedTuples(input_log', exclude_patterns)) ]_vars

\* the second call brought a tuple already collected and then a new one: the
\* error of ab/a comes first, the warning of a/b second, the note of b third
C15_Witness ==
    /\ calls = 2
    /\ input_log = <<LineExt, LineWarn, LineNote, LineContinuation, LineWarn>>
    /\ Keys(warnings) = << <<FileExt, 1, 1, ERROR, <<"m">>, <<"c">> >>,
                           <<FileAB, 1, 2, WARNING, <<"m">>, <<"c">> >>,
                           <<FileB, 2, 1, NOTE, <<"m">>, <<"c">> >> >>

-----------------------------------------------------------------------------
(* Claims about the summary of the report *)

\* the sum of the values of a function
RECURSIVE SumOf(_)
SumOf(f) ==
    IF DOMAIN f = {} THEN 0
    ELSE LET k == CHOOSE x \in DOMAIN f : TRUE
         IN f[k] + SumOf([x \in DOMAIN f \ {k} |-> f[x]])

\* C17: the counts of _group_by('severity'), of _group_by('check') and of
\* _group_by('file') each sum to len(warnings).
C17_GroupCountsSumToTotal ==
    pc = "reported" =>
        /\ SumOf(summary.by_severity) = Len(warnings)
        /\ SumOf(summary.by_check) = Len(warnings)
        /\ SumOf(summary.by_file) = Len(warnings)

\* a summary of four diagnostics, with three files, two checks and three
\* severities, so that groups of more than one diagnostic are counted
C17_Witness ==
    /\ pc = "reported"
    /\ Len(warnings) = 4
    /\ Cardinality(DOMAIN summary.by_file) = 3
    /\ Cardinality(DOMAIN summary.by_check) = 2
    /\ Cardinality(DOMAIN summary.by_severity) = 3

-----------------------------------------------------------------------------
(* The reporter from its construction to its report *)

\* os.path.isabs (posixpath)
IsAbs(path) == StartsWith(path, <<SLASH>>)

\* os.path.join(a, b) (posixpath)
JoinPath(a, b) ==
    IF StartsWith(b, <<SLASH>>) THEN b
    ELSE IF a = <<>> \/ EndsWith(a, <<SLASH>>) THEN a \o b
    ELSE a \o <<SLASH>> \o b

\* a variant of lines 223-228 without the call of os.path.normpath
EntryPathAsJoined(cmd) ==
    IF "directory" \in DOMAIN cmd /\ ~IsAbs(cmd.file)
    THEN JoinPath(cmd.directory, cmd.file)
    ELSE cmd.file

\* lines 223-228: the path of one entry of the database
EntryPath(cmd) ==
    Normpath(IF "directory" \in DOMAIN cmd /\ ~IsAbs(cmd.file)
             THEN JoinPath(cmd.directory, cmd.file)
             ELSE cmd.file)

\* lines 236-242: the patterns are tried in order on one path, up to the first
\* that matches; calls lists the path once per matcher call
RECURSIVE LoaderPatternLoop(_, _, _, _)

\* lines 237-242: what follows the matcher call for the i-th pattern
AfterPattern(call, path, patterns, i, debug) ==
    IF call.value
    THEN [excluded |-> TRUE, matched_pattern |-> <<patterns[i]>>, calls |-> <<path>>,
          printed |-> call.printed]
    ELSE LET rest == LoaderPatternLoop(path, patterns, i + 1, debug)
         IN [excluded |-> rest.excluded,
             matched_pattern |-> rest.matched_pattern,
             calls |-> <<path>> \o rest.calls,
             printed |-> call.printed \o rest.printed]

LoaderPatternLoop(path, patterns, i, debug) ==
    IF i > Len(patterns)
    THEN [excluded |-> FALSE, matched_pattern |-> <<>>, calls |-> <<>>, printed |-> <<>>]
    ELSE AfterPattern(ShouldExcludeWithPatternTraced(path, patterns[i], debug),
                      path, patterns, i, debug)

\* a variant of lines 244-254 that keeps an excluded path in files_to_check
AfterEntryKeepingAll(acc, path, tried) ==
    [files_to_check |-> Append(acc.files_to_check, path),
     all_files |-> Append(acc.all_files, path),
     excluded_files |-> IF tried.excluded THEN Append(acc.excluded_files, path)
                        ELSE acc.excluded_files,
     excluded_by_pattern |-> IF tried.excluded
                             THEN AppendTo(acc.excluded_by_pattern, tried.matched_pattern[1], path)
                             ELSE acc.excluded_by_pattern,
     matcher_args |-> acc.matcher_args \o tried.calls,
     printed |-> acc.printed \o tried.printed]

\* lines 222-254: the loop over the entries; the matcher traces the first 20
\* files only (line 231)
\* lines 244-254: the lists after one entry, tried being the outcome of the
\* pattern loop on its path
AfterEntry(acc, path, tried) ==
    [files_to_check |-> IF tried.excluded THEN acc.files_to_check
                        ELSE Append(acc.files_to_check, path),
     all_files |-> Append(acc.all_files, path),
     excluded_files |-> IF tried.excluded THEN Append(acc.excluded_files, path)
                        ELSE acc.excluded_files,
     excluded_by_pattern |-> IF tried.excluded
                             THEN AppendTo(acc.excluded_by_pattern, tried.matched_pattern[1], path)
                             ELSE acc.excluded_by_pattern,
     matcher_args |-> acc.matcher_args \o tried.calls,
     printed |-> acc.printed \o tried.printed]

\* lines 223-242 for an entry of path path
TryPatterns(acc, path, patterns, debug_exclude_active) ==
    AfterEntry(acc, path,
               LoaderPatternLoop(path, patterns, 1,
                                 debug_exclude_active /\ Len(acc.all_files) < 20))

RECURSIVE LoadLoop(_, _, _, _)
LoadLoop(acc, commands, patterns, debug_exclude_active) ==
    IF commands = <<>> THEN acc
    ELSE LoadLoop(TryPatterns(acc, EntryPath(Head(commands)), patterns, debug_exclude_active),
                  Tail(commands), patterns, debug_exclude_active)

\* lines 209-211: the lists of the loader before its loop
EmptyLists ==
    [files_to_check |-> <<>>, all_files |-> <<>>, excluded_files |-> <<>>,
     excluded_by_pattern |-> [p \in {} |-> <<>>], matcher_args |-> <<>>, printed |-> <<>>]

\* what the loader leaves when it returns
Loaded(loaded) ==
    [exited |-> FALSE,
     files_to_check |-> loaded.files_to_check,
     excluded_files |-> loaded.excluded_files,
     excluded_by_pattern |-> loaded.excluded_by_pattern,
     matcher_args |-> loaded.matcher_args,
     printed |-> loaded.printed]

\* a variant of the loader that takes a missing database for an empty one
LoadCompileCommandsWithoutDatabase(exists, commands, patterns, debug) ==
    Loaded(LoadLoop(EmptyLists, IF exists THEN commands ELSE <<>>, patterns, debug))

\* lines 196-263: _load_compile_commands; without the file it prints an error
\* and calls sys.exit(1) (lines 200-203)
LoadCompileCommands(exists, commands, patterns, debug) ==
    IF ~exists
    THEN [exited |-> TRUE,
          files_to_check |-> <<>>,
          excluded_files |-> <<>>,
          excluded_by_pattern |-> [p \in {} |-> <<>>],
          matcher_args |-> <<>>,
          printed |-> << Message("Error: compile_commands.json not found", <<>>) >>]
    ELSE Loaded(LoadLoop(EmptyLists, commands, patterns, debug))

\* one entry of the history of run_analysis: what was done to the i-th entry
\* of files_to_check
Event(what, i, file) == [what |-> what, index |-> i, file |-> file]

\* a variant of lines 793-829 that leaves a missing file out of the count of
\* skipped files
RunOneUncounted(acc, file, i, disk, out, patterns, mode) ==
    IF file \notin disk
    THEN [acc EXCEPT !.printed = IF mode # QUIET
                                 THEN Append(@, Message("Warning: File not found", file))
                                 ELSE @,
                     !.trace = Append(@, Event("skipped", i, file))]
    ELSE [acc EXCEPT !.files_processed = @ + 1,
                     !.analyzed = Append(@, file),
                     !.parsed = Append(@, out),
                     !.st = ParseClangTidyOutput(@, out, patterns, i),
                     !.trace = @ \o << Event("invoked", i, file), Event("parsed", i, file) >>]

\* lines 793-829: the body of the loop of run_analysis for the i-th entry of
\* files_to_check; out is what the analyzer prints for it, disk the set of
\* files that exist
RunOne(acc, file, i, disk, out, patterns, mode) ==
    IF file \notin disk
    THEN [acc EXCEPT !.printed = IF mode # QUIET
                                 THEN Append(@, Message("Warning: File not found", file))
                                 ELSE @,
                     !.files_skipped = @ + 1,
                     !.trace = Append(@, Event("skipped", i, file))]
    ELSE [acc EXCEPT !.files_processed = @ + 1,
                     !.analyzed = Append(@, file),
                     !.parsed = Append(@, out),
                     !.st = ParseClangTidyOutput(@, out, patterns, i),
                     !.trace = @ \o << Event("invoked", i, file), Event("parsed", i, file) >>]

\* a variant of the loop of run_analysis that ends at the first missing file
RECURSIVE RunLoopUntilMissing(_, _, _, _, _, _, _)
RunLoopUntilMissing(acc, files, i, disk, outs, patterns, mode) ==
    IF i > Len(files) THEN acc
    ELSE IF files[i] \notin disk
    THEN RunOne(acc, files[i], i, disk, outs[i], patterns, mode)
    ELSE RunLoopUntilMissing(RunOne(acc, files[i], i, disk, outs[i], patterns, mode),
                             files, i + 1, disk, outs, patterns, mode)

\* lines 792-836: the loop of run_analysis over files_to_check; outs[i] is what
\* the analyzer prints for the i-th file
RECURSIVE RunLoop(_, _, _, _, _, _, _)
RunLoop(acc, files, i, disk, outs, patterns, mode) ==
    IF i > Len(files) THEN acc
    ELSE RunLoop(RunOne(acc, files[i], i, disk, outs[i], patterns, mode),
                 files, i + 1, disk, outs, patterns, mode)

\* lines 841-842 and 2631-2633: file_warnings[warning['file']] += 1 for every
\* warning
RECURSIVE Recount(_, _)
Recount(fw, ws) ==
    IF ws = <<>> THEN fw ELSE Recount(Increment(fw, Head(ws).file), Tail(ws))

\* the lines of a list of outputs, in order
RECURSIVE LinesOf(_)
LinesOf(outs) ==
    IF outs = <<>> THEN <<>> ELSE Split(Head(outs), <<NL>>) \o LinesOf(Tail(outs))

\* the entries of the databases
EntryAbsoluteDirectory == [directory |-> <<SLASH, "a">>, file |-> <<"b">>]
EntryParent == [directory |-> <<SLASH, "a">>, file |-> <<".", ".", SLASH, "b">>]
EntryNoDirectory == [file |-> <<"a", SLASH, "b">>]
EntryRelativeDirectory == [directory |-> <<"a">>, file |-> <<".", SLASH, "b">>]
EntryAbsoluteFile == [directory |-> <<SLASH, "a">>, file |-> <<SLASH, "b">>]

Databases ==
    { <<>>,
      <<EntryAbsoluteDirectory>>,
      <<EntryAbsoluteDirectory, EntryParent>>,
      <<EntryNoDirectory>>,
      <<EntryAbsoluteDirectory, EntryNoDirectory>>,
      <<EntryRelativeDirectory, EntryAbsoluteFile>>,
      <<EntryAbsoluteFile, EntryAbsoluteDirectory>>,
      <<EntryParent, EntryAbsoluteDirectory, EntryAbsoluteDirectory>>,
      <<EntryNoDirectory, EntryAbsoluteDirectory, EntryParent>> }

\* the files that exist
Disks ==
    { {},
      { <<SLASH, "a", SLASH, "b">> },
      { <<SLASH, "a", SLASH, "b">>, <<SLASH, "b">>, <<"a", SLASH, "b">> } }

RunPatternLists ==
    { <<>>,
      << <<STAR, STAR, SLASH, "x">>, <<SLASH, "b">> >>,
      << <<SLASH, "a", SLASH, STAR, STAR>>, <<SLASH, "b">> >> }

\* what the analyzer prints for one file, or for all of them in parallel mode
RunOutputs ==
    { <<>>, Join(<<LineWarn, LineNote>>, <<NL>>), Join(<<LineNote, LineExt>>, <<NL>>) }

\* the default check lists of lines 620 and 631
DefaultChecks ==
    "clang-diagnostic-*,clang-analyzer-*,google-*,modernize-*,performance-*,readability-*"

MinimalChecks == "clang-diagnostic-*,clang-analyzer-*"

\* a command line as lines 601-636 and 2496-2515 build it: the program, its
\* options ('-p' always, '-checks' with its value when there is one, '-j' for
\* run-clang-tidy; no header filter is given in this model) and its file
\* arguments; checks is <<>> without a -checks argument
CommandLine(program, checks_argument, files) ==
    [program |-> program,
     options |-> { "-p" } \cup (IF checks_argument # <<>> THEN { "-checks" } ELSE {})
                         \cup (IF program = "run-clang-tidy" THEN { "-j" } ELSE {}),
     checks |-> checks_argument,
     files |-> files]

\* lines 607-634: the -checks argument _run_clang_tidy_single gives clang-tidy
SingleChecksArgument(chk, use_config_file, found) ==
    IF use_config_file
    THEN IF found THEN chk
         ELSE IF chk = <<>> THEN <<DefaultChecks>>
         ELSE chk
    ELSE IF chk = <<>> THEN <<MinimalChecks>>
    ELSE chk

\* lines 601-636: the command _run_clang_tidy_single builds for one file; the
\* argument fix of run_analysis is not handed down to it (line 814)
SingleCommand(file, chk, use_config_file, found) ==
    CommandLine("clang-tidy", SingleChecksArgument(chk, use_config_file, found), <<file>>)

\* the commands built for a list of files, in order
SingleCommands(files, chk, use_config_file, found) ==
    [i \in 1..Len(files) |-> SingleCommand(files[i], chk, use_config_file, found)]

\* lines 718-735: checks_used as run_analysis sets it
ChecksUsedSequential(previous, chk, use_config_file, found) ==
    IF use_config_file
    THEN IF found THEN (IF chk # <<>> THEN chk ELSE previous)
         ELSE IF chk = <<>> THEN <<DefaultChecks>>
         ELSE chk
    ELSE IF chk # <<>> THEN chk
    ELSE <<MinimalChecks>>

\* lines 2480-2492: checks_used as the parallel branch of main sets it
ChecksUsedParallel(previous, chk, no_cfg, found) ==
    IF ~no_cfg
    THEN IF found THEN (IF chk # <<>> THEN chk ELSE previous)
         ELSE IF chk = <<>> THEN <<DefaultChecks>>
         ELSE chk
    ELSE IF chk # <<>> THEN chk
    ELSE <<MinimalChecks>>

\* lines 2496-2500: the -checks argument given to run-clang-tidy
ParallelChecksArgument(chk, no_cfg) ==
    IF chk # <<>> THEN chk
    ELSE IF no_cfg THEN <<MinimalChecks>>
    ELSE <<>>

\* lines 2496-2515: the command of the parallel branch; the files are
\* arguments when there are 500 at most
ParallelCommand(files, chk, no_cfg) ==
    CommandLine("run-clang-tidy", ParallelChecksArgument(chk, no_cfg),
                IF Len(files) > 500 THEN <<>> ELSE files)

\* the process before main constructs the reporter: its options and what is
\* on disk
InitRun ==
    /\ Fresh
    /\ NoCompanion
    /\ Silent
    /\ exclude_patterns \in RunPatternLists
    /\ file_path = NoCall
    /\ pattern = NoCall
    /\ result = FALSE
    /\ debug_exclude \in BOOLEAN
    /\ print_mode \in PrintModes
    /\ parallel \in BOOLEAN
    /\ analyzer_works \in BOOLEAN
    /\ database_exists \in BOOLEAN
    /\ database \in (IF database_exists THEN Databases ELSE { <<>> })
    /\ on_disk \in Disks
    /\ files_to_check = <<>>
    /\ matcher_args = <<>>
    /\ analyzed = <<>>
    /\ exit_status = <<>>
    /\ return_code = <<>>
    /\ DefaultOptions
    /\ NothingLoaded
    /\ NotStarted
    /\ pc = "new"

\* lines 76-96 and 196-263: ClangTidyReporter(...), which loads the database
Constructed(load) ==
    /\ files_to_check' = load.files_to_check
    /\ excluded_files' = load.excluded_files
    /\ excluded_by_pattern' = load.excluded_by_pattern
    /\ compile_commands' = IF load.exited THEN compile_commands ELSE database
    /\ matcher_args' = load.matcher_args
    /\ stdout' = stdout \o load.printed
    /\ exit_status' = IF load.exited THEN <<1>> ELSE exit_status
    /\ pc' = IF load.exited THEN "exited" ELSE "constructed"

Construct ==
    /\ pc = "new"
    /\ Constructed(LoadCompileCommands(database_exists, database, exclude_patterns,
                                       debug_exclude))
    /\ UNCHANGED <<exclude_patterns, file_path, pattern, result, debug_exclude, print_mode,
                   parallel, analyzer_works, database_exists, database, on_disk, analyzed,
                   return_code, reports, summary, metadata, checks_used, invocations>>
    /\ UNCHANGED <<companionVars, optionVars, loopVars>>
    /\ Untouched

\* lines 2387-2391 of main: --limit keeps the first entries of files_to_check
ApplyLimit ==
    /\ pc = "constructed"
    /\ IF limit > 0
       THEN /\ files_to_check' = SubSeq(files_to_check, 1,
                                        IF limit < Len(files_to_check) THEN limit
                                        ELSE Len(files_to_check))
            /\ stdout' = Append(stdout, Message("Limiting analysis to first files", limit))
       ELSE UNCHANGED <<files_to_check, stdout>>
    /\ pc' = "limited"
    /\ UNCHANGED <<exclude_patterns, file_path, pattern, result, debug_exclude, print_mode,
                   parallel, analyzer_works, database_exists, database, on_disk, matcher_args,
                   analyzed, exit_status, return_code, reports, summary, metadata,
                   checks_used, invocations>>
    /\ UNCHANGED <<companionVars, optionVars, loadVars, loopVars>>
    /\ Untouched

\* the parser has been called on the outputs parsed, one after the other
ParsedInTurn(parsed) ==
    LET n == Len(parsed)
        lines == LinesOf(parsed)
    IN /\ output' = IF n > 0 THEN parsed[n] ELSE output
       /\ calls' = calls + n
       /\ lines_seen' = lines_seen \cup { lines[i] : i \in 1..Len(lines) }
       /\ reparsed' = (n >= 2 /\ parsed[n] = parsed[n - 1])
       /\ input_log' = input_log \o lines

\* lines 768-774: the sample check of the first five files
SampleWarning ==
    LET sample == SubSeq(files_to_check, 1,
                         IF Len(files_to_check) < 5 THEN Len(files_to_check) ELSE 5)
    IN IF print_mode \in { VERBOSE, FULL } /\ \E i \in 1..Len(sample) : sample[i] \notin on_disk
       THEN << Message("Warning: Some files don't exist", <<>>) >>
       ELSE <<>>

\* lines 846-847: the count of skipped files is printed when there is one
SkippedNote(skipped) ==
    IF skipped > 0 THEN << Message("Note: files were skipped (not found)", <<>>) >> ELSE <<>>

\* the loop of run_analysis has gone from the state of the reporter to loop
Looped(loop) ==
    /\ warnings' = loop.st.warnings
    /\ warnings_set' = loop.st.warnings_set
    /\ invocations' = invocations \o SingleCommands(
                          SubSeq(loop.analyzed, Len(analyzed) + 1, Len(loop.analyzed)),
                          checks, ~no_config, config_found)
    /\ analyzed' = loop.analyzed
    /\ files_processed' = loop.files_processed
    /\ files_skipped' = loop.files_skipped
    /\ trace' = loop.trace
    /\ ParsedInTurn(loop.parsed)

\* lines 768-774 and 838-880: run_analysis around its loop, which has left loop
Analysed(loop) ==
    /\ Looped(loop)
    /\ file_warnings' = Recount(loop.st.file_warnings, loop.st.warnings)
    /\ position' = Len(files_to_check) + 1
    /\ stdout' = stdout \o SampleWarning \o loop.printed \o SkippedNote(loop.files_skipped)
    /\ return_code' = <<0>>

\* lines 702-763: the two early returns of run_analysis; checks_used is set
\* between them (lines 718-735)
ReturnedEarly ==
    /\ IF ~analyzer_works
       THEN /\ stdout' = Append(stdout, Message("Error: clang-tidy not found", <<>>))
            /\ UNCHANGED checks_used
       ELSE /\ stdout' = Append(stdout, Message("Error: No files found to analyze", <<>>))
            /\ checks_used' = ChecksUsedSequential(checks_used, checks, ~no_config,
                                                   config_found)
    /\ return_code' = <<1>>
    /\ UNCHANGED <<warnings, warnings_set, file_warnings, analyzed, invocations>>
    /\ UNCHANGED <<output, calls, lines_seen, reparsed, input_log>>
    /\ UNCHANGED loopVars

\* lines 786-790: the locals of run_analysis before its loop
BeforeLoop ==
    [st |-> [warnings |-> warnings,
             warnings_set |-> warnings_set,
             file_warnings |-> [f \in {} |-> 0]],
     analyzed |-> analyzed,
     parsed |-> <<>>,
     printed |-> <<>>,
     files_processed |-> 0,
     files_skipped |-> 0,
     trace |-> <<>>]

\* lines 699-880: run_analysis; outs[i] is the output of the analyzer for the
\* i-th file of files_to_check
RunAnalysis(outs) ==
    /\ pc = "limited"
    /\ ~parallel
    /\ IF ~analyzer_works \/ files_to_check = <<>>
       THEN ReturnedEarly
       ELSE /\ checks_used' = ChecksUsedSequential(checks_used, checks, ~no_config,
                                                   config_found)
            /\ Analysed(RunLoop(BeforeLoop, files_to_check, 1, on_disk, outs,
                                exclude_patterns, print_mode))
    /\ pc' = "analysed"
    /\ UNCHANGED <<exclude_patterns, file_path, pattern, result, debug_exclude, print_mode,
                   parallel, analyzer_works, database_exists, database, on_disk,
                   files_to_check, matcher_args, exit_status, reports, summary, metadata>>
    /\ UNCHANGED <<companionVars, optionVars, loadVars>>

\* lines 2628-2633: the collections once the whole output is parsed into st
ParsedAndRecounted(st) ==
    /\ warnings' = st.warnings
    /\ warnings_set' = st.warnings_set
    /\ file_warnings' = Recount([f \in {} |-> 0], st.warnings)

\* lines 2459-2633: the parallel branch of main; launched tells whether
\* run-clang-tidy could be started, full_output is all it printed and code its
\* exit status
ParallelAnalysis(launched, full_output, code) ==
    /\ pc = "limited"
    /\ parallel
    /\ print_mode' = IF print_mode \in { VERBOSE, FULL } THEN PROGRESS ELSE print_mode
    /\ checks_used' = ChecksUsedParallel(checks_used, checks, no_config, config_found)
    /\ invocations' = Append(invocations, ParallelCommand(files_to_check, checks, no_config))
    /\ IF ~launched
       THEN /\ stdout' = Append(stdout, Message("Error", <<>>))
            /\ exit_status' = <<1>>
            /\ pc' = "exited"
            /\ UNCHANGED <<analyzed, return_code>>
            /\ Untouched
       ELSE /\ ParsedAndRecounted(
                   ParseClangTidyOutput([warnings |-> warnings,
                                         warnings_set |-> warnings_set,
                                         file_warnings |-> file_warnings],
                                        full_output, exclude_patterns, 1))
            /\ analyzed' = IF Len(files_to_check) > 500 THEN analyzed
                           ELSE analyzed \o files_to_check
            /\ stdout' = stdout
            /\ return_code' = <<code>>
            /\ exit_status' = exit_status
            /\ pc' = "analysed"
            /\ ParsedInTurn(<<full_output>>)
    /\ UNCHANGED <<exclude_patterns, file_path, pattern, result, debug_exclude, parallel,
                   analyzer_works, database_exists, database, on_disk, files_to_check,
                   matcher_args, reports, summary, metadata>>
    /\ UNCHANGED <<companionVars, optionVars, loadVars, loopVars>>

NextRun ==
    \/ Construct
    \/ ApplyLimit
    \/ \E outs \in [1..Len(files_to_check) -> RunOutputs] : RunAnalysis(outs)
    \/ \E launched \in BOOLEAN, full_output \in RunOutputs, code \in { 0, 1 } :
           ParallelAnalysis(launched, full_output, code)
    \/ GenerateJsonReport

SpecRun == InitRun /\ [][NextRun]_vars

-----------------------------------------------------------------------------
(* Claims about a whole run *)

\* the elements of a sequence
Range(q) == { q[i] : i \in 1..Len(q) }

\* for every file of a list of records, the number of records of that file
CountByFile(ws) ==
    [f \in { ws[i].file : i \in 1..Len(ws) } |->
        Cardinality({ i \in 1..Len(ws) : ws[i].file = f })]

\* C16: once the analysis is over, in sequential mode (run_analysis) and in
\* parallel mode (main), file_warnings[f] is for every file f the number of
\* records of warnings whose file is f.
C16_TalliesMatchCollection ==
    pc \in { "analysed", "reported" } => file_warnings = CountByFile(warnings)

\* C18: when the database file is missing, constructing the reporter prints
\* the error and exits with status 1; no file is enumerated, the analyzer is
\* never invoked and no report is written.
C18_MissingDatabaseIsFatal ==
    (~database_exists /\ pc # "new") =>
        /\ pc = "exited"
        /\ exit_status = <<1>>
        /\ Message("Error: compile_commands.json not found", <<>>) \in Range(stdout)
        /\ files_to_check = <<>>
        /\ matcher_args = <<>>
        /\ analyzed = <<>>
        /\ return_code = <<>>
        /\ reports = {}
        /\ warnings = <<>>

\* the constructor has exited on a missing database, in quiet mode too
C18_Witness ==
    /\ ~database_exists
    /\ pc = "exited"
    /\ exit_status = <<1>>
    /\ print_mode = QUIET
    /\ exclude_patterns # <<>>

\* the notice printed for a missing file
FileNotFound(f) == Message("Warning: File not found", f)

\* run_analysis has gone through its loop
SequentialRunDone ==
    /\ pc \in { "analysed", "reported" }
    /\ ~parallel
    /\ analyzer_works
    /\ files_to_check # <<>>

IsOnDisk(f) == f \in on_disk

\* C19 as stated: in every print mode, run_analysis prints a notice for every
\* file of files_to_check that is missing, does not invoke the analyzer on it,
\* goes on with the other files and returns 0.
C19_MissingFileNoticedInEveryMode ==
    SequentialRunDone =>
        /\ return_code = <<0>>
        /\ analyzed = SelectSeq(files_to_check, IsOnDisk)
        /\ \A f \in Range(files_to_check) :
               ~IsOnDisk(f) => FileNotFound(f) \in Range(stdout)

\* C19: run_analysis does not invoke the analyzer on a file of files_to_check
\* that is missing, goes on with the other files and returns 0; it prints the
\* notice for the file in every print mode but QUIET, where it prints none.
C19_MissingFileSkipped ==
    SequentialRunDone =>
        /\ return_code = <<0>>
        /\ analyzed = SelectSeq(files_to_check, IsOnDisk)
        /\ \A f \in Range(files_to_check) :
               ~IsOnDisk(f) => (FileNotFound(f) \in Range(stdout) <=> print_mode # QUIET)

\* the first file was missing and was noticed, a later one was analysed
C19_Witness ==
    /\ SequentialRunDone
    /\ print_mode = PROGRESS
    /\ ~IsOnDisk(files_to_check[1])
    /\ FileNotFound(files_to_check[1]) \in Range(stdout)
    /\ analyzed # <<>>
    /\ warnings # <<>>
    /\ return_code = <<0>>

\* the paths handed to the matcher or stored by the loader
Handed == Range(matcher_args) \cup Range(files_to_check)

\* the entry has an absolute file, or a relative file and an absolute directory
AbsoluteEntry(cmd) ==
    IsAbs(cmd.file) \/ ("directory" \in DOMAIN cmd /\ IsAbs(cmd.directory))

\* the path each entry of the databases stands for
ExpectedPath(cmd) ==
    CASE cmd = EntryAbsoluteDirectory -> <<SLASH, "a", SLASH, "b">>
      [] cmd = EntryParent -> <<SLASH, "b">>
      [] cmd = EntryNoDirectory -> <<"a", SLASH, "b">>
      [] cmd = EntryRelativeDirectory -> <<"a", SLASH, "b">>
      [] cmd = EntryAbsoluteFile -> <<SLASH, "b">>

-----------------------------------------------------------------------------
(* More claims about the exclusion matcher *)

\* the patterns with several '**' that neither start with '**/' nor end with
\* '/**'
MultiStarPatterns ==
    { p \in Patterns : /\ Len(Split(p, <<STAR, STAR>>)) > 2
                       /\ ~StartsWith(p, <<STAR, STAR, SLASH>>)
                       /\ ~EndsWith(p, <<SLASH, STAR, STAR>>) }

\* the 0-based index of the first '**' of a pattern that has one
FirstDoubleStar(p) ==
    CHOOSE k \in 0..(Len(p) - 2) :
        /\ SubSeq(p, k + 1, k + 2) = <<STAR, STAR>>
        /\ \A j \in 0..(k - 1) : SubSeq(p, j + 1, j + 2) # <<STAR, STAR>>

\* C22: a pattern with several '**' that neither starts with '**/' nor ends
\* with '/**' is split on its first '**' into head and tail (slashes
\* trimmed), and excludes the paths that fit them: the paths with a prefix
\* that ends with head and a rest that glob-matches *tail.
C22_SplitOnFirstDoubleStar ==
    (pc = "done" /\ pattern \in MultiStarPatterns) =>
        LET k == FirstDoubleStar(pattern)
            head == RStrip(SliceTo(pattern, k), SLASH)
            tail == LStrip(SliceFrom(pattern, k + 2), SLASH)
        IN (\E i \in 1..(Len(PathParts) - 1) :
                /\ EndsWith(SubPath(1, i), head)
                /\ Fnmatch(<<SLASH>> \o SubPath(i + 1, Len(PathParts)), <<STAR>> \o tail))
           => result

\* the components of head occur as consecutive whole components of the path
HeadOnWholeComponents(head) ==
    \E i \in 1..Len(PathParts) : \E j \in i..Len(PathParts) : SubPath(i, j) = head

\* C29: for an infix pattern head/**/tail, a path is excluded only if the
\* components of head occur as complete components of the path.
C29_InfixHeadWholeComponents ==
    (pc = "done" /\ pattern \in InfixPatterns) =>
        (result => HeadOnWholeComponents(RStrip(Split(pattern, <<STAR, STAR>>)[1], SLASH)))

-----------------------------------------------------------------------------
(* The parser on messages that hold bracketed parts *)

\* the words of the generated messages: a plain word and a bracketed one
Words == { <<"m">>, <<LBRACKET, "c", RBRACKET>> }

\* the generated messages: up to MaxWords words joined with a space
BracketedMessages == { Join(ws, <<SPACE>>) : ws \in SeqsUpTo(Words, MaxWords) \ { <<>> } }

\* the names of the checks of the generated lines
CheckNames == { <<"c">>, <<"d">> }

\* the generated lines, each with the message and the check it was written from
BracketedLines ==
    { [text |-> Diagnostic(FileB, <<"2">>, <<"1">>, NOTE, msg, chk),
       message |-> msg,
       check |-> chk] : msg \in BracketedMessages, chk \in CheckNames }

\* a reporter without exclusion patterns that parses the generated lines
InitBrackets ==
    /\ Fresh
    /\ NoCompanion
    /\ Silent
    /\ Standalone
    /\ exclude_patterns = <<>>
    /\ file_path = NoCall
    /\ pattern = NoCall
    /\ result = FALSE
    /\ pc = "idle"

NextBrackets == \E l \in BracketedLines : CallParseClangTidyOutput(l.text)

SpecBrackets == InitBrackets /\ [][NextBrackets]_vars

\* C24: in a parsed diagnostic the check is the final bracketed token with its
\* brackets stripped and the message is all the text before that token, the
\* bracketed parts of the message included: the records collected hold
\* exactly the (message, check) pairs the parsed lines were written from.
C24_FinalBracketIsCheck ==
    { <<warnings[i].message, warnings[i].check>> : i \in 1..Len(warnings) }
        = { <<l.message, l.check>> : l \in { b \in BracketedLines : b.text \in lines_seen } }

\* the line '... m [c] [d]' was parsed into message 'm [c]' and check 'd', and
\* the line '... [c] [c]' into message '[c]' and check 'c'
C24_Witness ==
    /\ calls = 2
    /\ Len(warnings) = 2
    /\ warnings[1].message = <<"m", SPACE, LBRACKET, "c", RBRACKET>>
    /\ warnings[1].check = <<"d">>
    /\ warnings[2].message = <<LBRACKET, "c", RBRACKET>>
    /\ warnings[2].check = <<"c">>

-----------------------------------------------------------------------------
(* Claims about the loading of the database *)

\* the paths of the entries of the database, in its order
EntryPaths == [i \in 1..Len(database) |-> EntryPath(database[i])]

\* _should_exclude on the reporter's patterns
IsExcluded(path) == ShouldExclude(path, exclude_patterns)

IsKept(path) == ~ShouldExclude(path, exclude_patterns)

\* C23: loading the database partitions its entries: files_to_check holds the
\* paths of the entries for which _should_exclude is false and the excluded
\* list those for which it is true, both in the order of the database, so
\* that every entry lands in exactly one of them; and the per-pattern
\* exclusion counts sum to the number of excluded entries.
C23_LoaderPartitionsEntries ==
    pc = "constructed" =>
        /\ files_to_check = SelectSeq(EntryPaths, IsKept)
        /\ excluded_files = SelectSeq(EntryPaths, IsExcluded)
        /\ Len(files_to_check) + Len(excluded_files) = Len(database)
        /\ DOMAIN excluded_by_pattern \subseteq Range(exclude_patterns)
        /\ SumOf([p \in DOMAIN excluded_by_pattern |-> Len(excluded_by_pattern[p])])
               = Len(excluded_files)

\* three entries were loaded, one kept and two excluded, each of the two by a
\* different pattern
C23_Witness ==
    /\ pc = "constructed"
    /\ Len(database) = 3
    /\ Len(files_to_check) = 1
    /\ Len(excluded_files) = 2
    /\ Cardinality(DOMAIN excluded_by_pattern) = 2

-----------------------------------------------------------------------------
(* Runs under the options of the command line *)

\* the values of --checks: not given, or a list of checks
CheckLists == { <<>>, <<"modernize-*">> }

\* the databases of the runs with options
OptionDatabases ==
    { <<EntryAbsoluteDirectory>>,
      <<EntryAbsoluteDirectory, EntryNoDirectory>>,
      <<EntryNoDirectory, EntryAbsoluteDirectory, EntryParent>> }

\* the process before main constructs the reporter, every source file being
\* on disk and the analyzer installed
InitOptions ==
    /\ Fresh
    /\ NoCompanion
    /\ Silent
    /\ exclude_patterns \in RunPatternLists
    /\ file_path = NoCall
    /\ pattern = NoCall
    /\ result = FALSE
    /\ debug_exclude = FALSE
    /\ print_mode = PROGRESS
    /\ parallel \in BOOLEAN
    /\ analyzer_works = TRUE
    /\ database_exists = TRUE
    /\ database \in OptionDatabases
    /\ on_disk = { <<SLASH, "a", SLASH, "b">>, <<SLASH, "b">>, <<"a", SLASH, "b">> }
    /\ files_to_check = <<>>
    /\ matcher_args = <<>>
    /\ analyzed = <<>>
    /\ exit_status = <<>>
    /\ return_code = <<>>
    /\ fix \in BOOLEAN
    /\ checks \in CheckLists
    /\ no_config \in BOOLEAN
    /\ config_found \in BOOLEAN
    /\ limit \in 0..MaxLimit
    /\ NothingLoaded
    /\ NotStarted
    /\ pc = "new"

SpecOptions == InitOptions /\ [][NextRun]_vars

\* the analysis is over and the analyzer was given a command
AnalyzerWasRun ==
    /\ pc \in { "analysed", "reported" }
    /\ invocations # <<>>

\* C21: with --fix every analyzer command built carries a fix option, and
\* without --fix none does.
C21_FixOptionCarried ==
    AnalyzerWasRun => \A i \in 1..Len(invocations) : ("-fix" \in invocations[i].options) <=> fix

\* C28: checks_used is the check list given to the analyzer: it is unset
\* exactly when the analyzer command carries no -checks argument and equals
\* that argument otherwise, in sequential and in parallel mode, and the JSON
\* metadata records the same value.
C28_ChecksUsedIsChecksGiven ==
    AnalyzerWasRun =>
        /\ \A i \in 1..Len(invocations) :
               /\ (checks_used = <<>>) <=> ("-checks" \notin invocations[i].options)
               /\ checks_used = invocations[i].checks
        /\ metadata # <<>> => metadata[1].checks_used = checks_used

\* C30: in the metadata of the JSON report files_excluded is the number of
\* entries of the database the exclusion patterns rejected and files_analyzed
\* the number of entries kept for analysis, with and without --limit.
C30_MetadataCountsEntries ==
    (pc = "reported" /\ metadata # <<>>) =>
        /\ metadata[1].files_excluded = Len(excluded_files)
        /\ metadata[1].files_analyzed = Len(files_to_check)

-----------------------------------------------------------------------------
(* run_analysis entry by entry *)

\* the locals of run_analysis and the collections between two iterations of
\* its loop
AtLoop ==
    [st |-> [warnings |-> warnings,
             warnings_set |-> warnings_set,
             file_warnings |-> file_warnings],
     analyzed |-> analyzed,
     parsed |-> <<>>,
     printed |-> <<>>,
     files_processed |-> files_processed,
     files_skipped |-> files_skipped,
     trace |-> trace]

\* lines 699-790: run_analysis up to its loop
StartAnalysis ==
    /\ pc = "limited"
    /\ ~parallel
    /\ IF ~analyzer_works \/ files_to_check = <<>>
       THEN /\ ReturnedEarly
            /\ pc' = "analysed"
       ELSE /\ checks_used' = ChecksUsedSequential(checks_used, checks, ~no_config,
                                                   config_found)
            /\ stdout' = stdout \o SampleWarning
            /\ file_warnings' = [f \in {} |-> 0]
            /\ position' = 1
            /\ files_processed' = 0
            /\ files_skipped' = 0
            /\ trace' = <<>>
            /\ pc' = "running"
            /\ UNCHANGED <<warnings, warnings_set, analyzed, invocations, return_code>>
            /\ UNCHANGED <<output, calls, lines_seen, reparsed, input_log>>
    /\ UNCHANGED <<exclude_patterns, file_path, pattern, result, debug_exclude, print_mode,
                   parallel, analyzer_works, database_exists, database, on_disk,
                   files_to_check, matcher_args, exit_status, reports, summary, metadata>>
    /\ UNCHANGED <<companionVars, optionVars, loadVars>>

\* one iteration of the loop has gone from the state of the reporter to loop
Stepped(loop) ==
    /\ Looped(loop)
    /\ file_warnings' = loop.st.file_warnings
    /\ stdout' = stdout \o loop.printed
    /\ position' = position + 1

\* lines 792-836: one iteration of the loop of run_analysis, on the entry at
\* position; out is what the analyzer prints for it
AnalyseNext(out) ==
    /\ pc = "running"
    /\ position <= Len(files_to_check)
    /\ Stepped(RunOne(AtLoop, files_to_check[position], position, on_disk, out,
                      exclude_patterns, print_mode))
    /\ UNCHANGED <<exclude_patterns, file_path, pattern, result, debug_exclude, print_mode,
                   parallel, analyzer_works, database_exists, database, on_disk,
                   files_to_check, matcher_args, exit_status, return_code, reports, summary,
                   metadata, checks_used, pc>>
    /\ UNCHANGED <<companionVars, optionVars, loadVars>>

\* lines 838-880: run_analysis after its loop
FinishAnalysis ==
    /\ pc = "running"
    /\ position > Len(files_to_check)
    /\ file_warnings' = Recount(file_warnings, warnings)
    /\ stdout' = stdout \o SkippedNote(files_skipped)
    /\ return_code' = <<0>>
    /\ pc' = "analysed"
    /\ UNCHANGED <<exclude_patterns, file_path, pattern, result, debug_exclude, print_mode,
                   parallel, analyzer_works, database_exists, database, on_disk,
                   files_to_check, matcher_args, analyzed, exit_status, reports, summary,
                   metadata, checks_used, invocations, warnings, warnings_set>>
    /\ UNCHANGED <<output, calls, lines_seen, reparsed, input_log>>
    /\ UNCHANGED <<companionVars, optionVars, loadVars, loopVars>>

\* the print modes of the runs followed entry by entry
StepModes == { QUIET, VERBOSE }

\* a sequential run before main constructs the reporter
InitSteps ==
    /\ Fresh
    /\ NoCompanion
    /\ Silent
    /\ exclude_patterns \in RunPatternLists
    /\ file_path = NoCall
    /\ pattern = NoCall
    /\ result = FALSE
    /\ debug_exclude = FALSE
    /\ print_mode \in StepModes
    /\ parallel = FALSE
    /\ analyzer_works \in BOOLEAN
    /\ database_exists = TRUE
    /\ database \in Databases
    /\ on_disk \in Disks
    /\ files_to_check = <<>>
    /\ matcher_args = <<>>
    /\ analyzed = <<>>
    /\ exit_status = <<>>
    /\ return_code = <<>>
    /\ DefaultOptions
    /\ NothingLoaded
    /\ NotStarted
    /\ pc = "new"

NextSteps ==
    \/ Construct
    \/ ApplyLimit
    \/ StartAnalysis
    \/ \E out \in RunOutputs : AnalyseNext(out)
    \/ FinishAnalysis
    \/ GenerateJsonReport

SpecSteps == InitSteps /\ [][NextSteps]_vars

\* once in its loop run_analysis goes on with the next entry, and leaves the
\* loop after the last: nothing in lines 792-880 waits for anything but the
\* analyzer, which returns an output for every file
FairSpecSteps ==
    /\ SpecSteps
    /\ WF_vars(\E out \in RunOutputs : AnalyseNext(out))
    /\ WF_vars(FinishAnalysis)

\* what run_analysis does to the entries from the i-th on: a missing file is
\* skipped, any other has the analyzer invoked and its output parsed
RECURSIVE ExpectedTrace(_, _)
ExpectedTrace(files, i) ==
    IF i > Len(files) THEN <<>>
    ELSE (IF files[i] \in on_disk
          THEN << Event("invoked", i, files[i]), Event("parsed", i, files[i]) >>
          ELSE << Event("skipped", i, files[i]) >>) \o ExpectedTrace(files, i + 1)

\* run_analysis has entered its loop
LoopEntered == pc = "running" /\ position = 1

\* run_analysis has returned 0 after handling every entry once, in order
EveryEntryHandled ==
    /\ pc = "analysed"
    /\ return_code = <<0>>
    /\ trace = ExpectedTrace(files_to_check, 1)
    /\ files_processed + files_skipped = Len(files_to_check)
    /\ analyzed = SelectSeq(files_to_check, IsOnDisk)
    /\ Len(invocations) = files_processed
    /\ \A i \in 1..Len(invocations) : invocations[i].files = <<analyzed[i]>>

\* C25: when the analyzer is available and files_to_check is not empty,
\* run_analysis terminates with 0 after handling every entry of
\* files_to_check exactly once and in list order, each entry being either
\* skipped as missing or analysed once with its output parsed before the next
\* entry starts, and files_processed + files_skipped is the number of
\* entries.
C25_RunTerminatesHavingHandledAll == LoopEntered ~> EveryEntryHandled

\* a run of two entries, the first missing and the second analysed, has
\* returned 0
C25_Witness ==
    /\ EveryEntryHandled
    /\ Len(files_to_check) = 2
    /\ files_skipped = 1
    /\ files_processed = 1
    /\ trace[1].what = "skipped"
    /\ warnings # <<>>

-----------------------------------------------------------------------------
(* Accumulation over several outputs *)

\* a reporter that has parsed nothing
EmptyReporter ==
    [warnings |-> <<>>, warnings_set |-> {}, file_warnings |-> [f \in {} |-> 0]]

\* the reporter after one pass of the loop of the parser over the lines
ParsedAtOnce(lines) == ParseLines(EmptyReporter, lines, exclude_patterns, 1)

\* C26: accumulating over several analyzer outputs is equivalent to parsing
\* their concatenation: after any sequence of calls of the parser, warnings
\* holds the same tuples in the same order as one call on the lines of all the
\* outputs, in the order they arrived, leaves in a new reporter.
C26_AccumulationIsConcatenation ==
    calls >= 1 => Keys(warnings) = Keys(ParsedAtOnce(input_log).warnings)

\* C26 witness: two outputs were parsed one after the other, each brought a
\* diagnostic of its own and the second repeated one of the first
C26_Witness ==
    /\ calls = 2
    /\ input_log = <<LineExt, LineWarn, LineNote, LineContinuation, LineWarn>>
    /\ exclude_patterns = <<>>
    /\ Len(warnings) = 3
    /\ warnings[2].timestamp = 1
    /\ warnings[3].timestamp = 2
    /\ Keys(warnings) = Keys(ParsedAtOnce(input_log).warnings)

\* C27: at every point between two operations warnings_set is exactly the set
\* of the 6-tuples of the records of warnings and has as many elements as
\* warnings has records: nothing is added to one without the matching entry
\* being added to the other.
C27_SetMirrorsList ==
    /\ warnings_set = { KeyOf(warnings[i]) : i \in 1..Len(warnings) }
    /\ Cardinality(warnings_set) = Len(warnings)

\* C27 witness: two calls have collected two records, three lines were
\* skipped as duplicates or for not matching, and the report was written
C27_Witness ==
    /\ pc = "reported"
    /\ calls = 2
    /\ input_log = <<LineWarn, LineWarnPadded, LineNote, LineContinuation, LineWarn>>
    /\ Len(warnings) = 2
    /\ Cardinality(warnings_set) = 2
    /\ metadata[1].total_warnings = 2

====
